---------------------------- MODULE Spec2Model ----------------------------
(***************************************************************************)
(* A model of the MidoNet plugin (neutron/plugins/midonet/plugin.py): the  *)
(* translation of logical ports, security groups, routers and floating IPs *)
(* into chains, rules, routes and IP address groups of the MidoNet         *)
(* controller.                                                             *)
(*                                                                         *)
(* mido  is the controller's store, db the relational store.  A handler is *)
(* an operator on a "run" record [mido, db, budget, err, created]: every   *)
(* remote call and every local write is a step that consumes one unit of   *)
(* budget and raises when the budget is used up, which is how a failure in *)
(* the middle of a handler is injected.  After a raise the remaining steps *)
(* of the handler are skipped, as after a Python exception.                *)
(***************************************************************************)
EXTENDS Integers, Sequences, FiniteSets, Bags, TLC

VARIABLES mido, db, last, lock, pc, calls

vars == <<mido, db, last, lock, pc, calls>>

(***************************** bounds **************************************)
MaxFixedIps == 2
MaxSgIds == 2
MaxFailAt == 24

(************************ program constants ********************************)
METADATA_DEFAULT_IP == <<"169.254.169.254", 32>>
OS_FLOATING_IP_RULE_KEY == "OS_FLOATING_IP"
OS_SG_RULE_KEY == "OS_SG_RULE_ID"
OS_TENANT_ROUTER_RULE_KEY == "OS_TENANT_ROUTER_RULE"
SNAT_RULE == "SNAT"
ETHERTYPE_ARP == 2054
ETHERTYPE_IPV4 == 2048
ETHERTYPE_IPV6 == 34525

DEVICE_OWNER_ROUTER_INTF == "network:router_interface"
DEVICE_OWNER_ROUTER_GW == "network:router_gateway"
DEVICE_OWNER_FLOATINGIP == "network:floatingip"
DEVICE_OWNER_DHCP == "network:dhcp"
DEVICE_OWNER_VIF == "compute:nova"

None == "None"

(************************** name templates *********************************)
PRE_ROUTING_CHAIN_NAME(id) == "OS_PRE_ROUTING_" \o id
POST_ROUTING_CHAIN_NAME(id) == "OS_POST_ROUTING_" \o id
PORT_INBOUND_CHAIN_NAME(id) == "OS_PORT_" \o id \o "_INBOUND"
PORT_OUTBOUND_CHAIN_NAME(id) == "OS_PORT_" \o id \o "_OUTBOUND"
SG_INGRESS_CHAIN_NAME(id) == "OS_SG_" \o id \o "_INGRESS"
SG_EGRESS_CHAIN_NAME(id) == "OS_SG_" \o id \o "_EGRESS"
SG_IP_ADDR_GROUP_NAME(id) == "OS_IPG_" \o id

(* The floating address rewritten to the fixed one in both chains.         *)
_get_nat_ips_one_way(type, fip) == <<fip.floating_ip_address, fip.fixed_ip_address>>

_get_nat_ips(type, fip) ==
    IF type = "pre-routing"
    THEN <<fip.floating_ip_address, fip.fixed_ip_address>>
    ELSE <<fip.fixed_ip_address, fip.floating_ip_address>>

_nat_chain_names(router_id) ==
    [pre_routing |-> PRE_ROUTING_CHAIN_NAME(router_id),
     post_routing |-> POST_ROUTING_CHAIN_NAME(router_id)]

(* Both directions under one name.                                         *)
_sg_chain_names_one_name(sg_id) ==
    [ingress |-> "OS_SG_" \o sg_id, egress |-> "OS_SG_" \o sg_id]

_sg_chain_names(sg_id) ==
    [ingress |-> SG_INGRESS_CHAIN_NAME(sg_id),
     egress |-> SG_EGRESS_CHAIN_NAME(sg_id)]

(* Names that leave the id out.                                            *)
_port_chain_names_no_id(port_id) ==
    [inbound |-> "OS_PORT_INBOUND", outbound |-> "OS_PORT_OUTBOUND"]

_port_chain_names(port_id) ==
    [inbound |-> PORT_INBOUND_CHAIN_NAME(port_id),
     outbound |-> PORT_OUTBOUND_CHAIN_NAME(port_id)]

_sg_ip_addr_group_name(sg_id) == SG_IP_ADDR_GROUP_NAME(sg_id)

_is_router_interface_port(port) == port.device_owner = DEVICE_OWNER_ROUTER_INTF
_is_router_gw_port(port) == port.device_owner = DEVICE_OWNER_ROUTER_GW
_is_fip_port(port) == port.device_owner = DEVICE_OWNER_FLOATINGIP
_is_dhcp_port(port) == port.device_owner = DEVICE_OWNER_DHCP
_is_vif_port(port) ==
    ~(_is_dhcp_port(port) \/ _is_fip_port(port) \/ _is_router_gw_port(port)
      \/ _is_router_interface_port(port))

(*************************** small helpers *********************************)
Range(s) == {s[i] : i \in DOMAIN s}

RECURSIVE Reverse(_)
Reverse(s) == IF s = <<>> THEN <<>> ELSE Reverse(Tail(s)) \o <<Head(s)>>

Count(s, P(_)) == Cardinality({i \in DOMAIN s : P(s[i])})

NoDup(s) == \A i, j \in DOMAIN s : i # j => s[i] # s[j]

SeqsUpTo(S, n) == UNION {[1..k -> S] : k \in 0..n}


(******************************* runs **************************************)
(* budget < 0: no failure is injected.                                     *)
Run(md, d, budget) ==
    [mido |-> md, db |-> d, budget |-> budget, err |-> "none",
     fault |-> "MidonetApiException", created |-> <<>>, deleted |-> <<>>,
     orig |-> "none", comp |-> "none", log |-> <<>>]

Ok(m) == m.err = "none"

(* v is evaluated once and handed to F.                                    *)
With(v, F(_)) == CHOOSE r \in {F(x) : x \in {v}} : TRUE

Raise(m, e) == With(m, LAMBDA t : IF Ok(t) THEN [t EXCEPT !.err = e] ELSE t)

(* One fallible step: a remote call that changes the controller, or a      *)
(* local write.  F is the step's effect.                                   *)
Step(m, F(_)) ==
    With(m, LAMBDA t :
        IF ~Ok(t) THEN t
        ELSE IF t.budget = 0 THEN [t EXCEPT !.err = t.fault]
        ELSE With([t EXCEPT !.budget = IF @ > 0 THEN @ - 1 ELSE @], F))

(* log: the order of the handler's creating remote calls, of its local     *)
(* writes and of the openings of its transactional scope.                  *)
Created(m, obj) ==
    [m EXCEPT !.created = Append(@, obj), !.log = Append(@, <<"remote">> \o obj)]

Wrote(m, obj) == [m EXCEPT !.log = Append(@, <<"local">> \o obj)]

Begin(m) ==
    With(m, LAMBDA t : IF Ok(t) THEN [t EXCEPT !.log = Append(@, <<"begin">>)] ELSE t)

Deleted(m, obj) == [m EXCEPT !.deleted = Append(@, obj)]

(********************* the controller boundary *****************************)
(* A chain is the sequence of its rules in evaluation order; position is   *)
(* 1-based: the new rule becomes the position-th rule and the rules from   *)
(* there on move down.                                                     *)
InsertAt(rules, position, rule) ==
    SubSeq(rules, 1, position - 1) \o <<rule>> \o SubSeq(rules, position, Len(rules))

client_get_chain_by_name(md, name) ==
    IF name \in DOMAIN md.chains THEN name ELSE None

client_create_chain(m, name) ==
    Step(m, LAMBDA t :
        Created([t EXCEPT !.mido.chains = (name :> <<>>) @@ @], <<"chain", name>>))

client_add_chain_rule(m, chain, rule, position) ==
    Step(m, LAMBDA t :
        Created([t EXCEPT !.mido.chains[chain] = InsertAt(@, position, rule)],
                <<"rule", chain, rule>>))

(* Removes the rules of the chain that satisfy Match, each by its own id.  *)
client_remove_chain_rules(m, chain, Match(_)) ==
    Step(m, LAMBDA t :
        [t EXCEPT !.mido.chains[chain] = SelectSeq(@, LAMBDA r : ~Match(r))])

client_remove_rules_by_property(m, chain, key, value) ==
    Step(m, LAMBDA t :
        IF chain \in DOMAIN t.mido.chains
        THEN [t EXCEPT !.mido.chains[chain] =
                 SelectSeq(@, LAMBDA r : r.properties # <<key, value>>)]
        ELSE t)

client_delete_chains_by_names(m, names) ==
    Step(m, LAMBDA t :
        [t EXCEPT !.mido.chains = [n \in (DOMAIN @) \ names |-> @[n]]])

client_create_ip_addr_group(m, sg_id) ==
    Step(m, LAMBDA t :
        Created([t EXCEPT !.mido.ipgs = (sg_id :> {}) @@ @], <<"ip_addr_group", sg_id>>))

client_delete_ip_addr_group(m, sg_id) ==
    Step(m, LAMBDA t :
        [t EXCEPT !.mido.ipgs = [g \in (DOMAIN @) \ {sg_id} |-> @[g]]])

client_add_ip_addr_to_ip_addr_group(m, sg_id, ip) ==
    Step(m, LAMBDA t :
        IF sg_id \in DOMAIN t.mido.ipgs
        THEN Created([t EXCEPT !.mido.ipgs[sg_id] = @ \cup {ip}],
                     <<"ip_addr_group_addr", sg_id, ip>>)
        ELSE Raise(t, "MidonetResourceNotFound"))

client_remove_ip_addr_from_ip_addr_group(m, ip, sg_id) ==
    Step(m, LAMBDA t :
        IF sg_id \in DOMAIN t.mido.ipgs
        THEN [t EXCEPT !.mido.ipgs[sg_id] = @ \ {ip}]
        ELSE t)

BridgePort(bridge, asu) ==
    [type |-> "Bridge", device_id |-> bridge, peer_id |-> None,
     admin_state_up |-> asu, inbound |-> None, outbound |-> None,
     port_address |-> None, network |-> None]

RouterPort(router, addr, net, asu) ==
    [type |-> "Router", device_id |-> router, peer_id |-> None,
     admin_state_up |-> asu, inbound |-> None, outbound |-> None,
     port_address |-> addr, network |-> net]

client_add_bridge_port(m, id, bridge, asu) ==
    Step(m, LAMBDA t :
        IF bridge \in t.mido.bridges
        THEN Created([t EXCEPT !.mido.ports = (id :> BridgePort(bridge, asu)) @@ @,
                               !.mido.seq = @ + 1],
                     <<"port", id>>)
        ELSE Raise(t, "MidonetResourceNotFound"))

client_update_port_chains(m, id, inbound, outbound) ==
    Step(m, LAMBDA t :
        [t EXCEPT !.mido.ports[id].inbound = inbound,
                  !.mido.ports[id].outbound = outbound])

(* delete_port(id, delete_chains): the port's two chains go with it only   *)
(* when delete_chains is set.                                              *)
client_delete_port(m, id, delete_chains) ==
    Step(m, LAMBDA t :
        LET p == t.mido.ports[id]
            gone == IF delete_chains THEN {p.inbound, p.outbound} ELSE {}
        IN  IF id \in DOMAIN t.mido.ports
            THEN Deleted([t EXCEPT !.mido.ports = [q \in (DOMAIN @) \ {id} |-> @[q]],
                                   !.mido.chains = [n \in (DOMAIN @) \ gone |-> @[n]]],
                         <<"port", id>>)
            ELSE Raise(t, "MidonetResourceNotFound"))

client_add_dhcp_host(m, bridge, cidr, ip, mac) ==
    Step(m, LAMBDA t :
        Created([t EXCEPT !.mido.dhcp_hosts = @ \cup {<<bridge, cidr, ip, mac>>}],
                <<"dhcp_host", bridge, cidr, ip, mac>>))

client_remove_dhcp_host(m, bridge, cidr, ip, mac) ==
    Step(m, LAMBDA t :
        [t EXCEPT !.mido.dhcp_hosts = @ \ {<<bridge, cidr, ip, mac>>}])

client_add_dhcp_route_option(m, bridge, cidr, gw_ip, dst_ip) ==
    Step(m, LAMBDA t :
        Created([t EXCEPT !.mido.dhcp_routes = @ \cup {<<bridge, cidr, gw_ip, dst_ip>>}],
                <<"dhcp_route", bridge, cidr, gw_ip, dst_ip>>))

Route(router, type, src, dst, next_hop_port, next_hop_gateway) ==
    [router |-> router, type |-> type, src |-> src, dst |-> dst,
     next_hop_port |-> next_hop_port, next_hop_gateway |-> next_hop_gateway,
     weight |-> 100]

client_add_router_route(m, route) ==
    Step(m, LAMBDA t :
        Created([t EXCEPT !.mido.routes = @ (+) SetToBag({route})], <<"route", route>>))

(* Deletes the routes that satisfy Match, each by its own id.              *)
client_delete_routes(m, Match(_)) ==
    Step(m, LAMBDA t :
        [t EXCEPT !.mido.routes =
            [r \in {x \in DOMAIN @ : ~Match(x)} |-> @[r]]])

(* The port of the device peer_id that is linked to a port of router.      *)
client_get_link_port(md, router, peer_id) ==
    LET ps == {p \in DOMAIN md.ports :
                 /\ md.ports[p].device_id = peer_id
                 /\ md.ports[p].peer_id \in DOMAIN md.ports
                 /\ md.ports[md.ports[p].peer_id].device_id = router}
    IN  IF ps = {} THEN None ELSE CHOOSE p \in ps : TRUE

net_addr(cidr) == cidr

(************************** chain rules ************************************)
(* An absent number or prefix is <<>>, a present one <<n>> or <<addr,      *)
(* len>>; an absent string is None; an absent flag is FALSE.               *)
KW ==
    [dl_type |-> <<>>, inv_dl_type |-> FALSE, dl_src |-> None,
     inv_dl_src |-> FALSE, match_return_flow |-> FALSE,
     match_forward_flow |-> FALSE, inv_nw_src |-> FALSE,
     jump_chain_id |-> None, jump_chain_name |-> None, properties |-> <<>>,
     ip_addr_group_src |-> None, ip_addr_group_dst |-> None, nw_proto |-> <<>>,
     src_addr |-> <<>>, dst_addr |-> <<>>,
     src_port_from |-> <<>>, src_port_to |-> <<>>,
     dst_port_from |-> <<>>, dst_port_to |-> <<>>]

(* The rule with the port ranges as given, whatever the protocol.          *)
RuleOfRanges(action, kw) ==
    [action |-> action,
     dl_type |-> kw.dl_type, inv_dl_type |-> kw.inv_dl_type,
     dl_src |-> kw.dl_src, inv_dl_src |-> kw.inv_dl_src,
     match_return_flow |-> kw.match_return_flow,
     match_forward_flow |-> kw.match_forward_flow,
     inv_nw_src |-> kw.inv_nw_src,
     jump_chain_id |-> kw.jump_chain_id, jump_chain_name |-> kw.jump_chain_name,
     properties |-> kw.properties,
     ip_addr_group_src |-> kw.ip_addr_group_src,
     ip_addr_group_dst |-> kw.ip_addr_group_dst,
     nw_proto |-> kw.nw_proto,
     nw_src |-> IF kw.src_addr # <<>> THEN net_addr(kw.src_addr) ELSE <<>>,
     nw_dst |-> IF kw.dst_addr # <<>> THEN net_addr(kw.dst_addr) ELSE <<>>,
     tp_src |-> [start |-> kw.src_port_from, end |-> kw.src_port_to],
     tp_dst |-> [start |-> kw.dst_port_from, end |-> kw.dst_port_to]]

(* The keys and values the controller receives for a rule.                 *)
RuleOf(action, kw) ==
    [action |-> action,
     dl_type |-> kw.dl_type, inv_dl_type |-> kw.inv_dl_type,
     dl_src |-> kw.dl_src, inv_dl_src |-> kw.inv_dl_src,
     match_return_flow |-> kw.match_return_flow,
     match_forward_flow |-> kw.match_forward_flow,
     inv_nw_src |-> kw.inv_nw_src,
     jump_chain_id |-> kw.jump_chain_id, jump_chain_name |-> kw.jump_chain_name,
     properties |-> kw.properties,
     ip_addr_group_src |-> kw.ip_addr_group_src,
     ip_addr_group_dst |-> kw.ip_addr_group_dst,
     nw_proto |-> kw.nw_proto,
     nw_src |-> IF kw.src_addr # <<>> THEN net_addr(kw.src_addr) ELSE <<>>,
     nw_dst |-> IF kw.dst_addr # <<>> THEN net_addr(kw.dst_addr) ELSE <<>>,
     tp_src |-> IF kw.nw_proto = <<1>>
                THEN [start |-> kw.src_port_from, end |-> kw.src_port_from]
                ELSE [start |-> kw.src_port_from, end |-> kw.src_port_to],
     tp_dst |-> IF kw.nw_proto = <<1>>
                THEN [start |-> kw.dst_port_to, end |-> kw.dst_port_to]
                ELSE [start |-> kw.dst_port_from, end |-> kw.dst_port_to]]

_add_chain_rule(m, chain, action, kw, position) ==
    client_add_chain_rule(m, chain, RuleOf(action, kw), position)

DropNonArp == RuleOf("drop", [KW EXCEPT !.dl_type = <<ETHERTYPE_ARP>>, !.inv_dl_type = TRUE])

ReverseFlowAccept == RuleOf("accept", [KW EXCEPT !.match_return_flow = TRUE])

MacSpoofDrop(mac) == RuleOf("drop", [KW EXCEPT !.dl_src = mac, !.inv_dl_src = TRUE])

IpSpoofDrop(d, fixed_ip) ==
    IF d.subnets[fixed_ip.subnet_id].ip_version = 6
    THEN RuleOf("drop", [KW EXCEPT !.src_addr = <<fixed_ip.ip_address, 128>>,
                                   !.inv_nw_src = TRUE, !.dl_type = <<ETHERTYPE_IPV6>>])
    ELSE RuleOf("drop", [KW EXCEPT !.src_addr = <<fixed_ip.ip_address, 32>>,
                                   !.inv_nw_src = TRUE, !.dl_type = <<ETHERTYPE_IPV4>>])

JumpTo(sg_chain) ==
    RuleOf("jump", [KW EXCEPT !.jump_chain_id = sg_chain, !.jump_chain_name = sg_chain])

_get_port_chains(md, port) ==
    LET chain_names == _port_chain_names(port.id)
    IN  <<client_get_chain_by_name(md, chain_names.inbound),
          client_get_chain_by_name(md, chain_names.outbound)>>

(* <<egress chain, ingress chain>> *)
_get_sg_chains(md, sg_id) ==
    LET chain_names == _sg_chain_names(sg_id)
    IN  <<client_get_chain_by_name(md, chain_names.egress),
          client_get_chain_by_name(md, chain_names.ingress)>>

(* A jump appended after the last rule instead of before it.               *)
JumpPositionAppend(rules) == Len(rules) + 1

(* A jump inserted at the head of the chain.                               *)
JumpPositionFirst(rules) == 1

(* The position a jump rule is inserted at: the chain's current length.    *)
JumpPosition(rules) == Len(rules)

AddJump(m, port_chain, sg_chain) ==
    IF ~Ok(m) THEN m
    ELSE IF sg_chain = None \/ port_chain = None THEN Raise(m, "AttributeError")
    ELSE client_add_chain_rule(m, port_chain, JumpTo(sg_chain),
                               JumpPosition(m.mido.chains[port_chain]))

(* The jumps with the two chains of the group exchanged.                   *)
_add_sg_jumps_to_port_chains_swapped(m, port_inbound, port_outbound, sg_egress, sg_ingress) ==
    AddJump(AddJump(m, port_inbound, sg_ingress), port_outbound, sg_egress)

_add_sg_jumps_to_port_chains(m, port_inbound, port_outbound, sg_egress, sg_ingress) ==
    AddJump(AddJump(m, port_inbound, sg_egress), port_outbound, sg_ingress)

RECURSIVE IpSpoofRules(_, _, _)
IpSpoofRules(m, in_chain, fixed_ips) ==
    IF fixed_ips = <<>> THEN m
    ELSE IpSpoofRules(
             client_add_chain_rule(m, in_chain, IpSpoofDrop(m.db, Head(fixed_ips)), 1),
             in_chain, Tail(fixed_ips))

RECURSIVE SgJumps(_, _, _, _)
SgJumps(m, in_chain, out_chain, sg_ids) ==
    IF sg_ids = <<>> \/ ~Ok(m) THEN m
    ELSE LET sg == _get_sg_chains(m.mido, Head(sg_ids))
         IN  SgJumps(_add_sg_jumps_to_port_chains(m, in_chain, out_chain, sg[1], sg[2]),
                     in_chain, out_chain, Tail(sg_ids))

(* The reverse-flow accept of the inbound chain inserted after the         *)
(* spoofing drops, so that it is evaluated before them.                    *)
_initialize_port_chains_accept_first(m, port, in_chain, out_chain, sg_ids) ==
    LET m1 == client_add_chain_rule(m, in_chain, DropNonArp, 1)
        m2 == client_add_chain_rule(m1, out_chain, DropNonArp, 1)
        m4 == client_add_chain_rule(m2, in_chain, MacSpoofDrop(port.mac_address), 1)
        m5 == IpSpoofRules(m4, in_chain, port.fixed_ips)
        m3 == client_add_chain_rule(m5, in_chain, ReverseFlowAccept, 1)
        m6 == client_add_chain_rule(m3, out_chain, ReverseFlowAccept, 1)
    IN  SgJumps(m6, in_chain, out_chain, sg_ids)

_initialize_port_chains(m, port, in_chain, out_chain, sg_ids) ==
    LET m1 == client_add_chain_rule(m, in_chain, DropNonArp, 1)
        m2 == client_add_chain_rule(m1, out_chain, DropNonArp, 1)
        m3 == client_add_chain_rule(m2, in_chain, ReverseFlowAccept, 1)
        m4 == client_add_chain_rule(m3, in_chain, MacSpoofDrop(port.mac_address), 1)
        m5 == IpSpoofRules(m4, in_chain, port.fixed_ips)
        m6 == client_add_chain_rule(m5, out_chain, ReverseFlowAccept, 1)
    IN  SgJumps(m6, in_chain, out_chain, sg_ids)

(************************ ports and security groups ************************)
PROVIDER_ROUTER == "pr"

_get_provider_router == PROVIDER_ROUTER

IsJumpTo(r, sg_chain) == r.action = "jump" /\ r.jump_chain_name = sg_chain

RemoveJumps(m, port_chain, sg_chain) ==
    IF ~Ok(m) THEN m
    ELSE IF port_chain = None \/ sg_chain = None THEN Raise(m, "AttributeError")
    ELSE IF \A i \in DOMAIN m.mido.chains[port_chain] :
                ~IsJumpTo(m.mido.chains[port_chain][i], sg_chain)
    THEN m
    ELSE client_remove_chain_rules(m, port_chain, LAMBDA r : IsJumpTo(r, sg_chain))

RECURSIVE RemoveSgJumps(_, _, _, _)
RemoveSgJumps(m, port_inbound, port_outbound, sg_ids) ==
    IF sg_ids = <<>> \/ ~Ok(m) THEN m
    ELSE LET sg == _get_sg_chains(m.mido, Head(sg_ids))
             m1 == RemoveJumps(m, port_inbound, sg[1])
             m2 == RemoveJumps(m1, port_outbound, sg[2])
         IN  RemoveSgJumps(m2, port_inbound, port_outbound, Tail(sg_ids))

(* The jumps of the port left where they are.                              *)
_remove_sg_jumps_from_port_chains_kept(m, port) == m

_remove_sg_jumps_from_port_chains(m, port) ==
    LET chains == _get_port_chains(m.mido, port)
    IN  RemoveSgJumps(m, chains[1], chains[2], port.security_groups)

RECURSIVE RemoveIps(_, _, _)
RemoveIps(m, fixed_ips, sg_id) ==
    IF fixed_ips = <<>> THEN m
    ELSE RemoveIps(
             client_remove_ip_addr_from_ip_addr_group(m, Head(fixed_ips).ip_address, sg_id),
             Tail(fixed_ips), sg_id)

RECURSIVE UnbindIps(_, _, _)
UnbindIps(m, port, sgs) ==
    IF sgs = {} THEN m
    ELSE LET sg_id == CHOOSE g \in sgs : TRUE
         IN  UnbindIps(RemoveIps(m, port.fixed_ips, sg_id), port, sgs \ {sg_id})

_delete_port_security_group_bindings(m, port_id) ==
    Step(m, LAMBDA t :
        [t EXCEPT !.db.sg_bindings = {b \in @ : b[1] # port_id}])

_unbind_port_from_sgs(m, port) ==
    LET sg_bindings == {b[2] : b \in {x \in m.db.sg_bindings : x[1] = port.id}}
        m1 == UnbindIps(m, port, sg_bindings)
        m2 == _delete_port_security_group_bindings(m1, port.id)
    IN  _remove_sg_jumps_from_port_chains(m2, port)

_process_port_create_security_group(m, port, sg_ids) ==
    Step(m, LAMBDA t :
        [t EXCEPT !.db.sg_bindings = @ \cup {<<port.id, sg_ids[i]>> : i \in DOMAIN sg_ids},
                  !.db.ports[port.id].security_groups = sg_ids])

RECURSIVE AddIps(_, _, _)
AddIps(m, sg_id, fixed_ips) ==
    IF fixed_ips = <<>> THEN m
    ELSE AddIps(client_add_ip_addr_to_ip_addr_group(m, sg_id, Head(fixed_ips).ip_address),
                sg_id, Tail(fixed_ips))

RECURSIVE BindSgs(_, _, _, _, _)
BindSgs(m, port, in_chain, out_chain, sg_ids) ==
    IF sg_ids = <<>> \/ ~Ok(m) THEN m
    ELSE LET sg_id == Head(sg_ids)
             m1 == AddIps(m, sg_id, port.fixed_ips)
             sg == _get_sg_chains(m1.mido, sg_id)
             m2 == IF in_chain # None
                   THEN _add_sg_jumps_to_port_chains(m1, in_chain, out_chain, sg[1], sg[2])
                   ELSE m1
         IN  BindSgs(m2, port, in_chain, out_chain, Tail(sg_ids))

BindSgsToChains(m, port, sg_ids) ==
    BindSgs(m, port, _get_port_chains(m.mido, port)[1], _get_port_chains(m.mido, port)[2],
            sg_ids)

_bind_port_to_sgs(m, port, sg_ids) ==
    BindSgsToChains(_process_port_create_security_group(m, port, sg_ids), port, sg_ids)

(* <<cidr, ip, mac>> for the IPv4 fixed IPs on subnets with DHCP enabled.   *)
RECURSIVE _dhcp_mappings(_, _, _)
_dhcp_mappings(d, fixed_ips, mac) ==
    IF fixed_ips = <<>> THEN <<>>
    ELSE LET subnet == d.subnets[Head(fixed_ips).subnet_id]
             rest == _dhcp_mappings(d, Tail(fixed_ips), mac)
         IN  IF subnet.ip_version = 6 \/ ~subnet.enable_dhcp THEN rest
             ELSE <<<<subnet.cidr, Head(fixed_ips).ip_address, mac>>>> \o rest

RECURSIVE _metadata_subnets(_, _)
_metadata_subnets(d, fixed_ips) ==
    IF fixed_ips = <<>> THEN <<>>
    ELSE LET subnet == d.subnets[Head(fixed_ips).subnet_id]
             rest == _metadata_subnets(d, Tail(fixed_ips))
         IN  IF subnet.ip_version = 6 THEN rest
             ELSE <<<<subnet.cidr, Head(fixed_ips).ip_address>>>> \o rest

_add_route_to_provider(m, device_id, ip) ==
    LET provider_router == _get_provider_router
        link_port == client_get_link_port(m.mido, provider_router, device_id)
    IN  IF ~Ok(m) THEN m
        ELSE IF link_port = None THEN Raise(m, "AttributeError")
        ELSE client_add_router_route(m,
                 Route(provider_router, "Normal", <<"0.0.0.0", 0>>, <<ip, 32>>,
                       m.mido.ports[link_port].peer_id, None))

_remove_route_from_provider(m, ip) ==
    LET provider_router == _get_provider_router
        Hit(r) == r.router = provider_router /\ r.dst = <<ip, 32>>
    IN  IF ~Ok(m) \/ \A r \in DOMAIN m.mido.routes : ~Hit(r) THEN m
        ELSE client_delete_routes(m, Hit)

(***************************** floating IPs ********************************)
NatRule(nat_type, from_ip, to_ip, port_id, props) ==
    [action |-> nat_type, flow_action |-> "accept", nw_addr |-> from_ip,
     nat_target |-> to_ip, port |-> port_id, properties |-> props]

client_add_static_nat(m, chain_name, from_ip, to_ip, port_id, nat_type, props) ==
    LET chain == client_get_chain_by_name(m.mido, chain_name)
    IN  IF ~Ok(m) THEN m
        ELSE IF chain = None THEN Raise(m, "AttributeError")
        ELSE client_add_chain_rule(m, chain,
                 NatRule(nat_type, from_ip, to_ip, port_id, props), 1)

(* remove_static_route(router, ip): the router's routes to ip/32.          *)
client_remove_static_route(m, router, ip) ==
    LET Hit(r) == r.router = router /\ r.dst = <<ip, 32>>
    IN  IF ~Ok(m) \/ \A r \in DOMAIN m.mido.routes : ~Hit(r) THEN m
        ELSE client_delete_routes(m, Hit)

_add_nat_rules(m, link_port, fip) ==
    LET props == <<OS_FLOATING_IP_RULE_KEY, fip.id>>
        chain_names == _nat_chain_names(fip.router_id)
        pre == _get_nat_ips("pre-routing", fip)
        post == _get_nat_ips("post-routing", fip)
        m1 == IF fip.router_id \notin m.mido.routers
              THEN Raise(m, "MidonetResourceNotFound") ELSE m
        m2 == client_add_static_nat(m1, chain_names.pre_routing, pre[1], pre[2],
                                    link_port, "dnat", props)
    IN  client_add_static_nat(m2, chain_names.post_routing, post[1], post[2],
                              link_port, "snat", props)

AssocFipNat(m, fip) ==
    LET link_port == client_get_link_port(m.mido, _get_provider_router, fip.router_id)
    IN  IF ~Ok(m) THEN m
        ELSE IF link_port = None THEN Raise(m, "AttributeError")
        ELSE _add_nat_rules(m, link_port, fip)

_assoc_fip(m, fip) ==
    LET m1 == IF Ok(m) /\ fip.router_id \notin m.mido.routers
              THEN Raise(m, "MidonetResourceNotFound") ELSE m
    IN  AssocFipNat(_add_route_to_provider(m1, fip.router_id, fip.floating_ip_address), fip)

(* The tagged rules are removed from the pre-routing chain only.           *)
_remove_nat_rules_pre_only(m, fip) ==
    LET m1 == IF Ok(m) /\ fip.router_id \notin m.mido.routers
              THEN Raise(m, "MidonetResourceNotFound") ELSE m
        m2 == client_remove_static_route(m1, _get_provider_router, fip.floating_ip_address)
    IN  client_remove_rules_by_property(m2, _nat_chain_names(fip.router_id).pre_routing,
                                        OS_FLOATING_IP_RULE_KEY, fip.id)

_remove_nat_rules(m, fip) ==
    LET m1 == IF Ok(m) /\ fip.router_id \notin m.mido.routers
              THEN Raise(m, "MidonetResourceNotFound") ELSE m
        m2 == client_remove_static_route(m1, _get_provider_router, fip.floating_ip_address)
        chain_names == _nat_chain_names(fip.router_id)
        m3 == client_remove_rules_by_property(m2, chain_names.pre_routing,
                                              OS_FLOATING_IP_RULE_KEY, fip.id)
    IN  client_remove_rules_by_property(m3, chain_names.post_routing,
                                        OS_FLOATING_IP_RULE_KEY, fip.id)

_disassoc_fip(m, fip) ==
    _remove_nat_rules(_remove_route_from_provider(m, fip.floating_ip_address), fip)

(* The floating-IP rows that are associated with the port.                 *)
FipsOfPort(d, port_id) ==
    {f \in DOMAIN d.floatingips : d.floatingips[f].port_id = port_id}

super_disassociate_floatingips(m, port_id) ==
    Step(m, LAMBDA t :
        [t EXCEPT !.db.floatingips =
            [f \in DOMAIN @ |->
                IF @[f].port_id = port_id
                THEN [@[f] EXCEPT !.port_id = None, !.fixed_ip_address = None,
                                  !.router_id = None]
                ELSE @[f]]])

disassociate_floatingips(m, port_id) ==
    LET fips == FipsOfPort(m.db, port_id)
        m1 == IF ~Ok(m) \/ fips = {} THEN m
              ELSE IF Cardinality(fips) > 1 THEN Raise(m, "MultipleResultsFound")
              ELSE _disassoc_fip(m, m.db.floatingips[CHOOSE f \in fips : TRUE])
    IN  super_disassociate_floatingips(m1, port_id)

(******************************* routers ***********************************)
(* Identifiers the controller generates are never reused: seq counts them. *)
NewId(md, prefix) == prefix \o ToString(md.seq + 1)

UseId(t) == [t EXCEPT !.mido.seq = @ + 1]

client_create_router(m, id) ==
    Step(m, LAMBDA t :
        Created([t EXCEPT !.mido.routers = @ \cup {id}], <<"router", id>>))

client_add_router_chains(m, router, pre, post) ==
    client_create_chain(client_create_chain(m, pre), post)

(* Deleting a router removes its ports and routes with it.                 *)
client_delete_router(m, id) ==
    Step(m, LAMBDA t :
        IF id \in t.mido.routers
        THEN LET mine == {p \in DOMAIN t.mido.ports : t.mido.ports[p].device_id = id}
             IN  Deleted([t EXCEPT
                     !.mido.routers = @ \ {id},
                     !.mido.ports = [p \in (DOMAIN @) \ mine |->
                                        IF @[p].peer_id \in mine
                                        THEN [@[p] EXCEPT !.peer_id = None] ELSE @[p]],
                     !.mido.routes = [r \in {x \in DOMAIN @ : x.router # id} |-> @[r]]],
                     <<"router", id>>)
        ELSE Raise(t, "MidonetResourceNotFound"))

client_delete_router_chains(m, id) ==
    client_delete_chains_by_names(m,
        {_nat_chain_names(id).pre_routing, _nat_chain_names(id).post_routing})

client_add_router_port(m, id, router, port_address, network, asu) ==
    Step(m, LAMBDA t :
        IF router \in t.mido.routers
        THEN Created(UseId([t EXCEPT !.mido.ports =
                         (id :> RouterPort(router, port_address, network, asu)) @@ @]),
                     <<"port", id>>)
        ELSE Raise(t, "MidonetResourceNotFound"))

client_link(m, port, peer_id) ==
    Step(m, LAMBDA t :
        IF port \in DOMAIN t.mido.ports /\ peer_id \in DOMAIN t.mido.ports
        THEN Created([t EXCEPT !.mido.ports[port].peer_id = peer_id,
                               !.mido.ports[peer_id].peer_id = port],
                     <<"link", port, peer_id>>)
        ELSE Raise(t, "MidonetResourceNotFound"))

client_unlink(m, port) ==
    Step(m, LAMBDA t :
        LET peer == t.mido.ports[port].peer_id
        IN  IF peer \in DOMAIN t.mido.ports
            THEN [t EXCEPT !.mido.ports[port].peer_id = None,
                           !.mido.ports[peer].peer_id = None]
            ELSE [t EXCEPT !.mido.ports[port].peer_id = None])

SnatRule(kind, gw_ip, port_id, props) ==
    [action |-> kind, flow_action |-> "accept", nw_addr |-> None,
     nat_target |-> gw_ip, port |-> port_id, properties |-> props]

(* add_dynamic_snat: an snat rule in the post-routing chain and the        *)
(* reverse rule in the pre-routing chain, both carrying the properties.    *)
client_add_dynamic_snat(m, pre_chain_name, post_chain_name, snat_ip, port_id, props) ==
    LET pre == client_get_chain_by_name(m.mido, pre_chain_name)
        post == client_get_chain_by_name(m.mido, post_chain_name)
    IN  IF ~Ok(m) THEN m
        ELSE IF pre = None \/ post = None THEN Raise(m, "AttributeError")
        ELSE client_add_chain_rule(
                 client_add_chain_rule(m, post, SnatRule("snat", snat_ip, port_id, props), 1),
                 pre, SnatRule("rev_snat", snat_ip, port_id, props), 1)

LinkGateway(m, gw_port, port, id, gw_router, gw_ip) ==
    LET m3 == client_link(m, gw_port, port)
        m4 == client_add_router_route(m3,
                  Route(gw_router, "Normal", <<"0.0.0.0", 0>>, <<gw_ip, 32>>, gw_port, None))
    IN  client_add_router_route(m4,
            Route(id, "Normal", <<"0.0.0.0", 0>>, <<"0.0.0.0", 0>>, port, None))

AddTenantUplink(m, gw_port, id, gw_router, gw_ip) ==
    LinkGateway(client_add_router_port(m, NewId(m.mido, "lp"), id, "169.254.255.2",
                                       <<"169.254.255.0", 30>>, TRUE),
                gw_port, NewId(m.mido, "lp"), id, gw_router, gw_ip)

_set_router_gateway(m, id, gw_router, gw_ip) ==
    LET m0 == IF Ok(m) /\ id \notin m.mido.routers
              THEN Raise(m, "MidonetResourceNotFound") ELSE m
    IN  AddTenantUplink(client_add_router_port(m0, NewId(m.mido, "lp"), gw_router,
                                               "169.254.255.1", <<"169.254.255.0", 30>>, TRUE),
                        NewId(m.mido, "lp"), id, gw_router, gw_ip)

(* Unlinks each uplink port of the router and deletes its peer, one after  *)
(* the other.                                                              *)
RECURSIVE RemoveUplinks(_, _)
RemoveUplinks(m, ps) ==
    IF ps = {} \/ ~Ok(m) THEN m
    ELSE LET p == CHOOSE x \in ps : TRUE
             peer_port_id == m.mido.ports[p].peer_id
         IN  RemoveUplinks(
                 IF peer_port_id # None
                 THEN client_delete_port(client_unlink(m, p), peer_port_id, FALSE)
                 ELSE m,
                 ps \ {p})

RemoveDefaultRoute(m, id) ==
    LET Default(r) == r.router = id /\ r.dst = <<"0.0.0.0", 0>>
    IN  IF ~Ok(m) \/ \A r \in DOMAIN m.mido.routes : ~Default(r) THEN m
        ELSE client_delete_routes(m, Default)

_remove_router_gateway(m, id) ==
    LET m0 == IF Ok(m) /\ id \notin m.mido.routers
              THEN Raise(m, "MidonetResourceNotFound") ELSE m
        uplinks == {p \in DOMAIN m.mido.ports :
                      /\ m.mido.ports[p].device_id = id
                      /\ m.mido.ports[p].port_address = "169.254.255.2"}
    IN  RemoveDefaultRoute(RemoveUplinks(m0, uplinks), id)

SetUpSnat(m, router_db, gw_ip) ==
    LET gw_port_midonet == client_get_link_port(m.mido, _get_provider_router, router_db.id)
        chain_names == _nat_chain_names(router_db.id)
        props == <<OS_TENANT_ROUTER_RULE_KEY, SNAT_RULE>>
    IN  IF ~Ok(m) \/ ~router_db.enable_snat THEN m
        ELSE IF gw_port_midonet = None THEN Raise(m, "AttributeError")
        ELSE client_add_dynamic_snat(m, chain_names.pre_routing, chain_names.post_routing,
                                     gw_ip, gw_port_midonet, props)

_set_up_gateway(m, router_db) ==
    LET gw_port_neutron == m.db.ports[router_db.gw_port_id]
        gw_ip == gw_port_neutron.fixed_ips[1].ip_address
        m0 == IF Ok(m) /\ (router_db.gw_port_id \notin DOMAIN m.db.ports
                           \/ gw_port_neutron.fixed_ips = <<>>)
              THEN Raise(m, "PortNotFound") ELSE m
    IN  SetUpSnat(_set_router_gateway(m0, router_db.id, _get_provider_router, gw_ip),
                  router_db, gw_ip)

(* delete_port_routes(routes, port_id): the routes through the port.       *)
RemoveRoutesVia(m, router_id, peer) ==
    LET Via(r) == r.router = router_id /\ r.next_hop_port = peer
    IN  IF ~Ok(m) \/ \A r \in DOMAIN m.mido.routes : ~Via(r) THEN m
        ELSE client_delete_routes(m, Via)

_unlink_bridge_from_router(m, router_id, bridge_port_id) ==
    LET m0 == IF Ok(m) /\ bridge_port_id \notin DOMAIN m.mido.ports
              THEN Raise(m, "MidonetResourceNotFound") ELSE m
    IN  client_unlink(RemoveRoutesVia(m0, router_id, m.mido.ports[bridge_port_id].peer_id),
                      bridge_port_id)

(***************************** port handlers *******************************)
(* with excutils.save_and_reraise_exception(): the error the caller gets   *)
(* when the saved error is orig and the body of the with block ended with  *)
(* body_err ("none" when it did not raise).                                *)
save_and_reraise_exception(orig, body_err) == orig

(* The error handler's own run: it starts with no error, and its remote    *)
(* call fails when comp_budget is 0.                                       *)
Handler(m, comp_budget) ==
    [m EXCEPT !.err = "none", !.budget = comp_budget, !.fault = "CompensationFailure"]

(* What the caller sees of a handler that ended in its except clause: the  *)
(* local transaction is rolled back to d0.  orig is the error that entered *)
(* the clause, comp the error of the clause's own remote call.             *)
Reraised(body, h, d0) ==
    [h EXCEPT !.db = d0, !.err = save_and_reraise_exception(body.err, h.err),
              !.budget = body.budget, !.fault = body.fault,
              !.orig = body.err, !.comp = h.err]

(* An except clause that calls the compensating delete bare and then       *)
(* re-raises: an error of the delete replaces the error being handled.     *)
RaisedBare(body, h, d0) ==
    [h EXCEPT !.db = d0, !.err = IF h.err # "none" THEN h.err ELSE body.err,
              !.budget = body.budget, !.fault = body.fault,
              !.orig = body.err, !.comp = h.err]

(* The addresses in use on the port's network.                              *)
IpsInUse(d, network_id) ==
    UNION {{d.ports[q].fixed_ips[i].ip_address : i \in DOMAIN d.ports[q].fixed_ips} :
              q \in {x \in DOMAIN d.ports : d.ports[x].network_id = network_id}}

super_create_port(m, port) ==
    Step(m, LAMBDA t :
        IF \E i \in DOMAIN port.fixed_ips :
              port.fixed_ips[i].ip_address \in IpsInUse(t.db, port.network_id)
        THEN Raise(t, "IpAddressInUse")
        ELSE
        Wrote([t EXCEPT !.db.ports = (port.id :>
            [id |-> port.id, network_id |-> port.network_id,
             mac_address |-> port.mac_address, fixed_ips |-> port.fixed_ips,
             device_owner |-> port.device_owner, device_id |-> port.device_id,
             admin_state_up |-> port.admin_state_up, security_groups |-> <<>>]) @@ @],
              <<"port", port.id>>))

(* The default group of the tenant: the group named default.               *)
DefaultSg(d) == CHOOSE g \in DOMAIN d.security_groups : d.security_groups[g].name = "default"

(* _ensure_default_security_group_on_port and _get_security_groups_on_port *)
SecurityGroupsOnPort(d, port) ==
    IF port.sg_attr_set THEN port.security_groups ELSE <<DefaultSg(d)>>

RECURSIVE AddDhcpHosts(_, _, _)
AddDhcpHosts(m, bridge, mappings) ==
    IF mappings = <<>> THEN m
    ELSE AddDhcpHosts(
             client_add_dhcp_host(m, bridge, Head(mappings)[1], Head(mappings)[2],
                                  Head(mappings)[3]),
             bridge, Tail(mappings))

RECURSIVE AddProviderRoutes(_, _, _)
AddProviderRoutes(m, bridge, fixed_ips) ==
    IF fixed_ips = <<>> \/ ~Ok(m) THEN m
    ELSE AddProviderRoutes(
             IF m.db.subnets[Head(fixed_ips).subnet_id].ip_version = 6 THEN m
             ELSE _add_route_to_provider(m, bridge, Head(fixed_ips).ip_address),
             bridge, Tail(fixed_ips))

RECURSIVE AddDhcpRouteOptions(_, _, _)
AddDhcpRouteOptions(m, bridge, subnets) ==
    IF subnets = <<>> THEN m
    ELSE AddDhcpRouteOptions(
             client_add_dhcp_route_option(m, bridge, Head(subnets)[1], Head(subnets)[2],
                                          METADATA_DEFAULT_IP),
             bridge, Tail(subnets))

(* The port bound to its groups after its chains were built.              *)
CreatePortChainsBindLast(m, port_data, sg_ids) ==
    LET names == _port_chain_names(port_data.id)
        m2 == client_create_chain(m, names.inbound)
        m3 == client_create_chain(m2, names.outbound)
        m4 == _initialize_port_chains(m3, port_data, names.inbound, names.outbound, sg_ids)
        m1 == _bind_port_to_sgs(m4, port_data, sg_ids)
    IN  client_update_port_chains(m1, port_data.id, names.inbound, names.outbound)

(* The body of create_port's try block, for a VIF port.                    *)
CreatePortChains(m, port_data, sg_ids) ==
    LET names == _port_chain_names(port_data.id)
        m1 == _bind_port_to_sgs(m, port_data, sg_ids)
        m2 == client_create_chain(m1, names.inbound)
        m3 == client_create_chain(m2, names.outbound)
        m4 == _initialize_port_chains(m3, port_data, names.inbound, names.outbound, sg_ids)
    IN  client_update_port_chains(m4, port_data.id, names.inbound, names.outbound)

AddPortDhcpHosts(m, port_data) ==
    AddDhcpHosts(m, port_data.network_id,
                 _dhcp_mappings(m.db, port_data.fixed_ips, port_data.mac_address))

AddExternalRoutes(m, port_data) ==
    IF Ok(m) /\ m.db.networks[port_data.network_id].external
    THEN AddProviderRoutes(m, port_data.network_id, port_data.fixed_ips)
    ELSE m

CreateVifPort(m, port_data) ==
    AddExternalRoutes(
        AddPortDhcpHosts(
            CreatePortChains(m, port_data, SecurityGroupsOnPort(m.db, port_data)),
            port_data),
        port_data)

CreatePortByOwner(m, port_data) ==
    IF _is_vif_port(port_data) THEN CreateVifPort(m, port_data)
    ELSE IF _is_dhcp_port(port_data)
    THEN AddDhcpRouteOptions(m, port_data.network_id,
             _metadata_subnets(m.db, port_data.fixed_ips))
    ELSE m

CreatePortBody(m, port_data) ==
    CreatePortByOwner(super_create_port(Begin(m), port_data), port_data)

(* The except clause with the compensating delete outside of               *)
(* save_and_reraise_exception.                                             *)
create_port_except_bare(body, bridge_port_id, comp_budget, d0) ==
    RaisedBare(body, client_delete_port(Handler(body, comp_budget), bridge_port_id, FALSE), d0)

(* The except clause of create_port.                                       *)
create_port_except(body, bridge_port_id, comp_budget, d0) ==
    Reraised(body, client_delete_port(Handler(body, comp_budget), bridge_port_id, FALSE), d0)

(* port is the request with the id the controller gave the bridge port.    *)
CreatePortCaught(body, bridge_port_id, comp_budget, d0) ==
    IF Ok(body) THEN body
    ELSE create_port_except(body, bridge_port_id, comp_budget, d0)

CreatePortTry(m, port, comp_budget, d0) ==
    IF ~Ok(m) THEN m
    ELSE CreatePortCaught(CreatePortBody(m, port), port.id, comp_budget, d0)

(* port is the request with the id the controller gave the bridge port.    *)
create_port(m, port, comp_budget) ==
    LET m0 == IF Ok(m) /\ port.network_id \notin m.mido.bridges
              THEN Raise(m, "MidonetResourceNotFound") ELSE m
    IN  CreatePortTry(
            client_add_bridge_port(m0, port.id, port.network_id, port.admin_state_up),
            port, comp_budget, m.db)

(* prevent_l3_port_deletion: a port owned by a router or a floating IP is  *)
(* not deleted through the port API.                                       *)
prevent_l3_port_deletion(m, id) ==
    IF Ok(m) /\ id \in DOMAIN m.db.ports
       /\ m.db.ports[id].device_owner \in
            {DEVICE_OWNER_ROUTER_INTF, DEVICE_OWNER_ROUTER_GW, DEVICE_OWNER_FLOATINGIP}
    THEN Raise(m, "L3PortInUse") ELSE m

(* get_port: the logical port, which must exist on the controller too.     *)
get_port(m, id) ==
    IF ~Ok(m) THEN m
    ELSE IF id \notin DOMAIN m.db.ports THEN Raise(m, "PortNotFound")
    ELSE IF id \notin DOMAIN m.mido.ports THEN Raise(m, "MidonetResourceNotFound")
    ELSE m

RemoveSnatRules(m, device_id) ==
    LET chain_names == _nat_chain_names(device_id)
        m0 == IF Ok(m) /\ device_id \notin DOMAIN m.db.routers
              THEN Raise(m, "RouterNotFound") ELSE m
        m1 == client_remove_rules_by_property(m0, chain_names.pre_routing,
                                              OS_TENANT_ROUTER_RULE_KEY, SNAT_RULE)
    IN  client_remove_rules_by_property(m1, chain_names.post_routing,
                                        OS_TENANT_ROUTER_RULE_KEY, SNAT_RULE)

RECURSIVE RemoveProviderRoutes(_, _)
RemoveProviderRoutes(m, fixed_ips) ==
    IF fixed_ips = <<>> THEN m
    ELSE RemoveProviderRoutes(_remove_route_from_provider(m, Head(fixed_ips).ip_address),
                              Tail(fixed_ips))

client_delete_dhcp_host(m, bridge_id, cidr, ip, mac) ==
    Step(m, LAMBDA t :
        [t EXCEPT !.mido.dhcp_hosts = @ \ {<<bridge_id, cidr, ip, mac>>}])

(* The log keeps which call failed.                                        *)
Noted(after, call) ==
    IF Ok(after) THEN after ELSE [after EXCEPT !.log = Append(@, <<"failed", call>>)]

RECURSIVE DeleteDhcpHosts(_, _, _)
DeleteDhcpHosts(m, network_id, mappings) ==
    IF mappings = <<>> \/ ~Ok(m) THEN m
    ELSE DeleteDhcpHosts(
             Noted(client_delete_dhcp_host(m, network_id, Head(mappings)[1],
                                           Head(mappings)[2], Head(mappings)[3]),
                   "delete_dhcp_host"),
             network_id, Tail(mappings))

super_delete_port(m, id) ==
    Step(m, LAMBDA t :
        [t EXCEPT !.db.ports = [q \in (DOMAIN @) \ {id} |-> @[q]],
                  !.db.sg_bindings = {b \in @ : b[1] # id}])

(* The gateway unlinked before the SNAT rules are removed.                 *)
DeletePortDeviceUnlinkFirst(m, id, port) ==
    IF _is_router_interface_port(port)
    THEN _unlink_bridge_from_router(m, port.device_id, id)
    ELSE IF _is_router_gw_port(port)
    THEN RemoveSnatRules(_remove_router_gateway(m, port.device_id), port.device_id)
    ELSE IF _is_vif_port(port) /\ m.db.networks[port.network_id].external
    THEN RemoveProviderRoutes(m, port.fixed_ips)
    ELSE m

DeletePortDevice(m, id, port) ==
    IF _is_router_interface_port(port)
    THEN _unlink_bridge_from_router(m, port.device_id, id)
    ELSE IF _is_router_gw_port(port)
    THEN _remove_router_gateway(RemoveSnatRules(m, port.device_id), port.device_id)
    ELSE IF _is_vif_port(port) /\ m.db.networks[port.network_id].external
    THEN RemoveProviderRoutes(m, port.fixed_ips)
    ELSE m

(* A failure of the DHCP clean-up is only logged.                          *)
Logged(before, after) ==
    IF Ok(before) /\ ~Ok(after) THEN [after EXCEPT !.err = "none", !.budget = -1]
    ELSE after

(* The failure of the DHCP clean-up is raised.                             *)
DeletePortDhcpRaised(m, port) ==
    DeleteDhcpHosts(m, port.network_id,
                    _dhcp_mappings(m.db, port.fixed_ips, port.mac_address))

DeletePortDhcp(m, port) ==
    Logged(m, DeleteDhcpHosts(m, port.network_id,
                  _dhcp_mappings(m.db, port.fixed_ips, port.mac_address)))

DeletePortFound(m, id) ==
    IF ~Ok(m) THEN m
    ELSE super_delete_port(
             DeletePortDhcp(
                 client_delete_port(DeletePortDevice(m, id, m.db.ports[id]), id, TRUE),
                 m.db.ports[id]),
             id)

delete_port(m, id, l3_port_check) ==
    LET m1 == IF l3_port_check THEN prevent_l3_port_deletion(m, id) ELSE m
    IN  DeletePortFound(get_port(disassociate_floatingips(m1, id), id), id)

super_update_port(m, id, req) ==
    Step(m, LAMBDA t :
        [t EXCEPT !.db.ports[id].fixed_ips = IF req.has_fixed_ips THEN req.fixed_ips ELSE @,
                  !.db.ports[id].admin_state_up =
                      IF req.has_admin_state_up THEN req.admin_state_up ELSE @])

client_update_port(m, id, asu) ==
    Step(m, LAMBDA t :
        IF id \in DOMAIN t.mido.ports
        THEN [t EXCEPT !.mido.ports[id].admin_state_up = asu]
        ELSE Raise(t, "MidonetResourceNotFound"))

RECURSIVE RemoveDhcpHosts(_, _, _)
RemoveDhcpHosts(m, bridge, mappings) ==
    IF mappings = <<>> THEN m
    ELSE RemoveDhcpHosts(
             client_remove_dhcp_host(m, bridge, Head(mappings)[1], Head(mappings)[2],
                                     Head(mappings)[3]),
             bridge, Tail(mappings))

UpdatePeerAdmin(m, id, asu) ==
    IF Ok(m) /\ _is_router_interface_port(m.db.ports[id])
    THEN client_update_port(m, m.mido.ports[id].peer_id, asu)
    ELSE m

UpdatePortAdmin(m, id, req) ==
    IF ~req.has_admin_state_up THEN m
    ELSE UpdatePeerAdmin(client_update_port(m, id, req.admin_state_up), id,
                         req.admin_state_up)

UpdatePortIps(m, id, old_port) ==
    LET p == m.db.ports[id]
        net_id == old_port.network_id
        mac == old_port.mac_address
    IN  IF ~Ok(m) \/ p.fixed_ips = <<>> THEN m
        ELSE IF net_id \notin m.mido.bridges THEN Raise(m, "MidonetResourceNotFound")
        ELSE IF _is_dhcp_port(p)
        THEN AddDhcpRouteOptions(m, net_id, _metadata_subnets(m.db, p.fixed_ips))
        ELSE AddDhcpHosts(
                 RemoveDhcpHosts(m, net_id, _dhcp_mappings(m.db, old_port.fixed_ips, mac)),
                 net_id, _dhcp_mappings(m.db, p.fixed_ips, mac))

UpdatePortSgs(m, id, req) ==
    IF ~Ok(m) \/ ~req.sg_attr_set THEN m
    ELSE _bind_port_to_sgs(_unbind_port_from_sgs(m, m.db.ports[id]), m.db.ports[id],
                           req.security_groups)

UpdatePortBody(m, id, req) ==
    UpdatePortSgs(
        UpdatePortIps(UpdatePortAdmin(super_update_port(m, id, req), id, req),
                      id, m.db.ports[id]),
        id, req)

UpdatePortEnd(body, d0) == IF Ok(body) THEN body ELSE [body EXCEPT !.db = d0]

update_port(m, id, req) ==
    UpdatePortEnd(IF Ok(m) /\ id \notin DOMAIN m.db.ports THEN Raise(m, "PortNotFound")
                  ELSE UpdatePortBody(m, id, req),
                  m.db)

(**************************** the port world *******************************)
(* Two networks (n1 internal, x1 external and linked to the provider       *)
(* router), the tenant's default security group sg1 and a second group     *)
(* sg2, no port yet.                                                       *)
SgIds == {"sg1", "sg2"}

PortWorldMido ==
    [bridges |-> {"n1", "x1"},
     routers |-> {PROVIDER_ROUTER},
     chains |-> [n \in UNION {{_sg_chain_names(g).ingress, _sg_chain_names(g).egress} :
                              g \in SgIds} |-> <<>>],
     ipgs |-> [g \in SgIds |-> {}],
     ports |-> ("lp1" :> [RouterPort(PROVIDER_ROUTER, "200.0.0.1", <<"200.0.0.0", 24>>, TRUE)
                            EXCEPT !.peer_id = "lp2"])
               @@ ("lp2" :> [BridgePort("x1", TRUE) EXCEPT !.peer_id = "lp1"]),
     routes |-> SetToBag({Route(PROVIDER_ROUTER, "BlackHole", <<"0.0.0.0", 0>>,
                                <<"200.0.0.0", 24>>, None, None)}),
     dhcp_hosts |-> {}, dhcp_routes |-> {},
     dhcp_subnets |-> {<<"n1", <<"10.0.0.0", 24>> >>, <<"n1", <<"fd00::", 64>> >>,
                       <<"x1", <<"200.0.0.0", 24>> >>},
     seq |-> 2]

PortWorldDb ==
    [networks |-> ("n1" :> [external |-> FALSE]) @@ ("x1" :> [external |-> TRUE]),
     subnets |-> ("s1" :> [network_id |-> "n1", ip_version |-> 4,
                           cidr |-> <<"10.0.0.0", 24>>, enable_dhcp |-> TRUE,
                           gateway_ip |-> "10.0.0.1"])
                 @@ ("s6" :> [network_id |-> "n1", ip_version |-> 6,
                              cidr |-> <<"fd00::", 64>>, enable_dhcp |-> TRUE,
                              gateway_ip |-> "fd00::1"])
                 @@ ("sx" :> [network_id |-> "x1", ip_version |-> 4,
                              cidr |-> <<"200.0.0.0", 24>>, enable_dhcp |-> FALSE,
                              gateway_ip |-> "200.0.0.1"]),
     ports |-> <<>>,
     sg_bindings |-> {},
     security_groups |-> ("sg1" :> [name |-> "default"]) @@ ("sg2" :> [name |-> "web"]),
     sg_rules |-> <<>>,
     routers |-> <<>>,
     floatingips |-> <<>>]

(* The addresses a request may ask for on a network.                       *)
Addresses(network_id) ==
    IF network_id = "n1"
    THEN {[subnet_id |-> "s1", ip_address |-> "10.0.0.3"],
          [subnet_id |-> "s6", ip_address |-> "fd00::3"]}
    ELSE {[subnet_id |-> "sx", ip_address |-> "200.0.0.3"]}

NoDupSeqs(S, n) == {q \in SeqsUpTo(S, n) : NoDup(q)}

PortRequests(md) ==
    {[id |-> NewId(md, "p"), network_id |-> n, mac_address |-> "fa:" \o NewId(md, "p"),
      fixed_ips |-> ips, device_owner |-> o, device_id |-> "vm", admin_state_up |-> TRUE,
      sg_attr_set |-> sgs[1], security_groups |-> sgs[2]] :
        n \in {"n1", "x1"},
        ips \in UNION {NoDupSeqs(Addresses(x), MaxFixedIps) : x \in {"n1", "x1"}},
        o \in {DEVICE_OWNER_VIF, DEVICE_OWNER_DHCP},
        sgs \in ({TRUE} \X NoDupSeqs(SgIds, MaxSgIds)) \cup {<<FALSE, <<>> >>}}

ValidRequest(req) ==
    /\ Range(req.fixed_ips) \subseteq Addresses(req.network_id)
    /\ req.device_owner = DEVICE_OWNER_DHCP => ~req.sg_attr_set

UpdateRequests ==
    {[has_admin_state_up |-> FALSE, admin_state_up |-> TRUE, has_fixed_ips |-> FALSE,
      fixed_ips |-> <<>>, sg_attr_set |-> TRUE, security_groups |-> sgs] :
        sgs \in NoDupSeqs(SgIds, MaxSgIds)}

Idle == [op |-> "none", id |-> None, err |-> "none", orig |-> "none", comp |-> "none",
         created |-> <<>>, deleted |-> <<>>, before |-> <<>>, hist |-> {},
         arg |-> <<>>, log |-> <<>>]

MaxPorts == 1

PortsInit ==
    /\ mido = PortWorldMido
    /\ db = PortWorldDb
    /\ last = Idle
    /\ lock = None
    /\ pc = <<>>
    /\ calls = <<>>

CreatePort ==
    /\ mido.seq < PortWorldMido.seq + MaxPorts
    /\ \E req \in PortRequests(mido) :
          /\ ValidRequest(req)
          /\ \E r \in {create_port(Run(mido, db, -1), req, -1)} :
                 /\ mido' = r.mido
                 /\ db' = r.db
                 /\ last' = [Idle EXCEPT !.op = "create_port", !.id = req.id, !.err = r.err]
    /\ UNCHANGED <<lock, pc, calls>>

UpdatePort ==
    /\ \E id \in DOMAIN db.ports, req \in UpdateRequests :
          /\ _is_vif_port(db.ports[id])
          /\ \E r \in {update_port(Run(mido, db, -1), id, req)} :
                 /\ mido' = r.mido
                 /\ db' = r.db
                 /\ last' = [Idle EXCEPT !.op = "update_port", !.id = id, !.err = r.err,
                                         !.before = db.ports[id].security_groups]
    /\ UNCHANGED <<lock, pc, calls>>

DeletePort ==
    /\ \E id \in DOMAIN db.ports :
          \E r \in {delete_port(Run(mido, db, -1), id, TRUE)} :
              /\ mido' = r.mido
              /\ db' = r.db
              /\ last' = [Idle EXCEPT !.op = "delete_port", !.id = id, !.err = r.err]
    /\ UNCHANGED <<lock, pc, calls>>

PortsNext == CreatePort \/ UpdatePort \/ DeletePort

SpecPorts == PortsInit /\ [][PortsNext]_vars

(************************* port chain properties ***************************)
VifPorts == {p \in DOMAIN db.ports : _is_vif_port(db.ports[p])}

InChain(p) == mido.chains[_port_chain_names(p).inbound]

OutChain(p) == mido.chains[_port_chain_names(p).outbound]

IsJump(r) == r.action = "jump"

IsIpSpoof(r) == r.action = "drop" /\ r.inv_nw_src

IsMacSpoof(r) == r.action = "drop" /\ r.inv_dl_src

EndsWithDrop(chain) == Len(chain) > 0 /\ chain[Len(chain)] = DropNonArp

(* C1: in every state, both chains of every VIF port that create_port has  *)
(* built end with the drop-everything-but-ARP rule, also after later jump  *)
(* insertions by update_port.                                              *)
C1_TerminalDropLast ==
    \A p \in VifPorts :
        /\ _port_chain_names(p).inbound \in DOMAIN mido.chains
        /\ _port_chain_names(p).outbound \in DOMAIN mido.chains
        /\ EndsWithDrop(InChain(p))
        /\ EndsWithDrop(OutChain(p))

(* A port with two addresses whose two jumps were inserted by update_port. *)
C1_Witness ==
    /\ last.op = "update_port" /\ last.err = "none"
    /\ last.id \in VifPorts
    /\ Len(db.ports[last.id].fixed_ips) = 2
    /\ Count(InChain(last.id), IsJump) = 2
    /\ Count(OutChain(last.id), IsJump) = 2
    /\ EndsWithDrop(InChain(last.id))

(* The evaluation order the claim C2 states: reverse-flow accept, then the *)
(* spoofing drops, then the jumps, then the terminal drop.                 *)
ClaimedRank(r) ==
    IF r = ReverseFlowAccept THEN 1
    ELSE IF IsIpSpoof(r) \/ IsMacSpoof(r) THEN 2
    ELSE IF IsJump(r) THEN 3
    ELSE 4

(* The evaluation order of the code: IP-spoofing drops, MAC-spoofing drop, *)
(* reverse-flow accept, jumps, terminal drop.                              *)
Rank(r) ==
    IF IsIpSpoof(r) THEN 1
    ELSE IF IsMacSpoof(r) THEN 2
    ELSE IF r = ReverseFlowAccept THEN 3
    ELSE IF IsJump(r) THEN 4
    ELSE 5

Ordered(chain, R(_)) == \A i, j \in DOMAIN chain : i < j => R(chain[i]) <= R(chain[j])

(* C2 as stated: both chains of every VIF port start with the reverse-flow *)
(* accept, followed by the spoofing drops, the jumps and the terminal drop.*)
C2_ClaimedOrder ==
    \A p \in VifPorts :
        /\ Ordered(InChain(p), ClaimedRank) /\ InChain(p)[1] = ReverseFlowAccept
        /\ Ordered(OutChain(p), ClaimedRank) /\ OutChain(p)[1] = ReverseFlowAccept

RECURSIVE IpSpoofSeq(_, _)
IpSpoofSeq(d, fixed_ips) ==
    IF fixed_ips = <<>> THEN <<>>
    ELSE IpSpoofSeq(d, Tail(fixed_ips)) \o <<IpSpoofDrop(d, Head(fixed_ips))>>

JumpSeq(sg_ids, direction) ==
    [i \in DOMAIN sg_ids |-> JumpTo(_sg_chain_names(sg_ids[i])[direction])]

(* C2 amended: the inbound chain is the IP-spoofing drops (last fixed IP   *)
(* first), the MAC-spoofing drop, the reverse-flow accept, the jumps and   *)
(* the terminal drop; the outbound chain is the reverse-flow accept, the   *)
(* jumps and the terminal drop.  Right after create_port the chains are    *)
(* exactly these sequences.                                                *)
C2_EvaluationOrder ==
    /\ \A p \in VifPorts :
          /\ Ordered(InChain(p), Rank)
          /\ Count(InChain(p), IsMacSpoof) = 1
          /\ Count(InChain(p), LAMBDA r : r = ReverseFlowAccept) = 1
          /\ Count(InChain(p), LAMBDA r : r = DropNonArp) = 1
          /\ Ordered(OutChain(p), Rank)
          /\ OutChain(p)[1] = ReverseFlowAccept
          /\ \A i \in DOMAIN OutChain(p) : Rank(OutChain(p)[i]) >= 3
          /\ Count(OutChain(p), LAMBDA r : r = ReverseFlowAccept) = 1
          /\ Count(OutChain(p), LAMBDA r : r = DropNonArp) = 1
    /\ (last.op = "create_port" /\ last.err = "none" /\ last.id \in VifPorts) =>
          LET port == db.ports[last.id]
          IN  /\ InChain(last.id) =
                    IpSpoofSeq(db, port.fixed_ips) \o <<MacSpoofDrop(port.mac_address)>>
                    \o <<ReverseFlowAccept>> \o JumpSeq(port.security_groups, "egress")
                    \o <<DropNonArp>>
              /\ OutChain(last.id) =
                    <<ReverseFlowAccept>> \o JumpSeq(port.security_groups, "ingress")
                    \o <<DropNonArp>>

(* A port created with two addresses and two groups.                       *)
C2_Witness ==
    /\ last.op = "create_port" /\ last.err = "none"
    /\ last.id \in VifPorts
    /\ Len(db.ports[last.id].fixed_ips) = 2
    /\ Len(db.ports[last.id].security_groups) = 2
    /\ Len(InChain(last.id)) = 7

Bound(d, p) == Range(d.ports[p].security_groups)

NonJumps(chain) == SelectSeq(chain, LAMBDA r : ~IsJump(r))

Jumps(chain) == SelectSeq(chain, IsJump)

(* C3 as stated: a step that leaves a port bound to the same set of groups *)
(* (a rebind in another order) leaves the rule sequence of both of its     *)
(* chains as it was.                                                       *)
C3_OrderIndependent ==
    [][\A p \in DOMAIN db.ports \cap DOMAIN db'.ports :
          (_is_vif_port(db.ports[p]) /\ Bound(db, p) = Bound(db', p)) =>
              /\ InChain(p)' = InChain(p)
              /\ OutChain(p)' = OutChain(p)]_vars

(* C3 amended: a rebind of the same set of groups leaves the rules other   *)
(* than jumps where they were and the set of jump rules as it was, and the *)
(* jump rules of each chain stand in the order in which the groups were    *)
(* bound.                                                                  *)
C3_OrderUpToJumps ==
    [][\A p \in DOMAIN db.ports \cap DOMAIN db'.ports :
          (_is_vif_port(db.ports[p]) /\ Bound(db, p) = Bound(db', p)) =>
              /\ NonJumps(InChain(p)') = NonJumps(InChain(p))
              /\ NonJumps(OutChain(p)') = NonJumps(OutChain(p))
              /\ Range(Jumps(InChain(p)')) = Range(Jumps(InChain(p)))
              /\ Range(Jumps(OutChain(p)')) = Range(Jumps(OutChain(p)))
              /\ Jumps(InChain(p)') = JumpSeq(db'.ports[p].security_groups, "egress")
              /\ Jumps(OutChain(p)') = JumpSeq(db'.ports[p].security_groups, "ingress")]_vars

(* A port rebound to the two groups it had, in the other order.            *)
C3_Witness ==
    /\ last.op = "update_port" /\ last.err = "none"
    /\ last.id \in VifPorts
    /\ Len(last.before) = 2
    /\ db.ports[last.id].security_groups = Reverse(last.before)

(**************************** router handlers ******************************)
(* _update_router_gw_info for a router without a gateway: the gateway port *)
(* is created on the external network through create_port and recorded in *)
(* the router.                                                             *)
GwPort(md, router_id, gw_info) ==
    [id |-> NewId(md, "p"), network_id |-> gw_info.network_id,
     mac_address |-> "fa:" \o NewId(md, "p"),
     fixed_ips |-> <<[subnet_id |-> gw_info.subnet_id,
                      ip_address |-> gw_info.ip_address]>>,
     device_owner |-> DEVICE_OWNER_ROUTER_GW, device_id |-> router_id,
     admin_state_up |-> TRUE, sg_attr_set |-> FALSE, security_groups |-> <<>>]

SetGwPort(m, router_id, gw_port_id, gw_info) ==
    Step(m, LAMBDA t :
        [t EXCEPT !.db.routers[router_id].gw_port_id = gw_port_id,
                  !.db.routers[router_id].enable_snat = gw_info.enable_snat])

_update_router_gw_info(m, router_id, gw_info, comp_budget) ==
    LET m0 == IF Ok(m) /\ ~m.db.networks[gw_info.network_id].external
              THEN Raise(m, "BadRequest") ELSE m
    IN  SetGwPort(create_port(m0, GwPort(m.mido, router_id, gw_info), comp_budget),
                  router_id, NewId(m.mido, "p"), gw_info)

RouterDb(r) ==
    [id |-> r.id, name |-> r.name, admin_state_up |-> r.admin_state_up,
     status |-> "ACTIVE", gw_port_id |-> None, enable_snat |-> TRUE]

(* The try block of create_router.                                         *)
SetUpNewGateway(m, r) ==
    IF Ok(m) THEN _set_up_gateway(m, m.db.routers[r.id]) ELSE m

AddRouterDb(m, r) ==
    Step(Begin(m), LAMBDA t :
        Wrote([t EXCEPT !.db.routers = (r.id :> RouterDb(r)) @@ @], <<"router", r.id>>))

(* The try block of create_router.                                         *)
CreateRouterBody(m, r, comp_budget) ==
    IF r.has_gw_info
    THEN SetUpNewGateway(
             _update_router_gw_info(AddRouterDb(m, r), r.id, r.gw_info, comp_budget), r)
    ELSE AddRouterDb(m, r)

(* The except clause with the compensating delete outside of               *)
(* save_and_reraise_exception.                                             *)
create_router_except_bare(body, mido_router_id, comp_budget, d0) ==
    RaisedBare(body, client_delete_router(Handler(body, comp_budget), mido_router_id), d0)

(* The second except clause of create_router.                              *)
create_router_except(body, mido_router_id, comp_budget, d0) ==
    Reraised(body, client_delete_router(Handler(body, comp_budget), mido_router_id), d0)

(* The first except clause of create_router: the router's status is set to *)
(* ERROR in the relational store, where _get_router must find the router.  *)
create_router_chains_failed(chains, mido_router_id) ==
    LET h == [chains EXCEPT !.err = "none", !.orig = chains.err]
    IN  IF mido_router_id \notin DOMAIN h.db.routers THEN Raise(h, "RouterNotFound")
        ELSE [h EXCEPT !.db.routers[mido_router_id].status = "ERROR"]

(* r is the request with the id the controller gave the router.            *)
CreateRouterCaught(body, mido_router_id, comp_budget, d0) ==
    IF Ok(body) THEN body
    ELSE create_router_except(body, mido_router_id, comp_budget, d0)

CreateRouterTry(m, r, comp_budget, d0) ==
    IF ~Ok(m) THEN create_router_chains_failed(m, r.id)
    ELSE CreateRouterCaught(CreateRouterBody(m, r, comp_budget), r.id, comp_budget, d0)

CreateRouterChains(m, r, comp_budget, d0) ==
    IF ~Ok(m) THEN m
    ELSE CreateRouterTry(
             client_add_router_chains(UseId(m), r.id, _nat_chain_names(r.id).pre_routing,
                                      _nat_chain_names(r.id).post_routing),
             r, comp_budget, d0)

(* r is the request with the id the controller gave the router.            *)
create_router(m, r, comp_budget) ==
    CreateRouterChains(client_create_router(m, r.id), r, comp_budget, m.db)

(************************* handlers that fail ******************************)
(* One failure is injected per behaviour: the budget is the number of      *)
(* steps of the handler that succeed before one raises, and comp_budget    *)
(* says whether the compensating delete of the except clause raises too.   *)
Budgets == {-1} \cup 0..MaxFailAt

CompBudgets == {-1, 0}

RouterRequests(md) ==
    {[id |-> NewId(md, "r"), name |-> "router", admin_state_up |-> TRUE,
      has_gw_info |-> g,
      gw_info |-> [network_id |-> "x1", subnet_id |-> "sx", ip_address |-> "200.0.0.5",
                   enable_snat |-> snat]] :
        g \in BOOLEAN, snat \in BOOLEAN}

Outcome(op, id, r) ==
    [Idle EXCEPT !.op = op, !.id = id, !.err = r.err, !.orig = r.orig, !.comp = r.comp,
                 !.created = r.created, !.deleted = r.deleted]

NoFailureYet == last.err = "none"

CreatePortFail ==
    /\ NoFailureYet
    /\ mido.seq < PortWorldMido.seq + MaxPorts
    /\ \E req \in PortRequests(mido), budget \in Budgets, comp_budget \in CompBudgets :
          /\ ValidRequest(req)
          /\ \E r \in {create_port(Run(mido, db, budget), req, comp_budget)} :
                 /\ mido' = r.mido
                 /\ db' = r.db
                 /\ last' = Outcome("create_port", req.id, r)
    /\ UNCHANGED <<lock, pc, calls>>

CreateRouterFail ==
    /\ NoFailureYet
    /\ mido.seq < PortWorldMido.seq + MaxPorts
    /\ \E req \in RouterRequests(mido), budget \in Budgets, comp_budget \in CompBudgets :
          /\ (req.has_gw_info \/ req.gw_info.enable_snat)
          /\ \E r \in {create_router(Run(mido, db, budget), req, comp_budget)} :
                 /\ mido' = r.mido
                 /\ db' = r.db
                 /\ last' = Outcome("create_router", req.id, r)
    /\ UNCHANGED <<lock, pc, calls>>

FailNext == CreatePortFail \/ CreateRouterFail

SpecFail == PortsInit /\ [][FailNext]_vars

(************************ compensation properties **************************)
(* An object the handler created is no longer on the controller.           *)
Undone(obj, md) ==
    CASE obj[1] = "port" -> obj[2] \notin DOMAIN md.ports
      [] obj[1] = "chain" -> obj[2] \notin DOMAIN md.chains
      [] obj[1] = "rule" -> obj[2] \notin DOMAIN md.chains
                            \/ obj[3] \notin Range(md.chains[obj[2]])
      [] obj[1] = "ip_addr_group_addr" -> obj[3] \notin md.ipgs[obj[2]]
      [] obj[1] = "dhcp_host" -> obj[2] \notin md.dhcp_hosts
      [] obj[1] = "dhcp_route" -> obj[2] \notin md.dhcp_routes
      [] obj[1] = "route" -> ~BagIn(obj[2], md.routes)
      [] obj[1] = "router" -> obj[2] \notin md.routers
      [] OTHER -> TRUE

FailedAfterPort(op) ==
    /\ last.op = op
    /\ last.orig # "none"
    /\ last.created # <<>>

(* C4: when create_port fails after the bridge port was created and the    *)
(* compensating deletes succeed, every controller object created so far    *)
(* is gone again, nothing else was deleted, and the caller receives the    *)
(* failure that started the compensation.                                  *)
C4_CompensatesAllCreated ==
    (FailedAfterPort("create_port") /\ last.comp = "none") =>
        /\ \A i \in DOMAIN last.created : Undone(last.created[i], mido)
        /\ Range(last.deleted) \subseteq Range(last.created)
        /\ last.err = last.orig

MaxProcs == 2

Procs == 1..MaxProcs

PortOps == {"create_port", "update_port", "delete_port"}

PortIds == {"p1", "p2"}

(* A decorator that names another lock for create_port.                    *)
synchronized_create_apart(op) ==
    IF op = "create_port" THEN "create-port-section" ELSE "port-critical-section"

(* The lock name each handler's decorator gives.                           *)
synchronized(op) ==
    CASE op = "create_port" -> "port-critical-section"
      [] op = "update_port" -> "port-critical-section"
      [] op = "delete_port" -> "port-critical-section"

LockNames == {synchronized(op) : op \in PortOps}

(* The controller calls a body makes, in order.                            *)
ControllerCalls(op) ==
    CASE op = "create_port" -> <<"add_bridge_port", "create_chain", "update_port_chains">>
      [] op = "update_port" -> <<"update_port", "add_dhcp_host">>
      [] op = "delete_port" -> <<"delete_port", "delete_dhcp_host">>

IdlePc == [at |-> "idle", op |-> None, id |-> None, k |-> 0]

InBody == {p \in Procs : pc[p].at = "body"}

LockInit ==
    /\ mido = PortWorldMido
    /\ db = PortWorldDb
    /\ last = Idle
    /\ lock = [n \in LockNames |-> 0]
    /\ pc = [p \in Procs |-> IdlePc]
    /\ calls = <<>>

(* A request thread calls one of the three handlers.                       *)
Invoke(p) ==
    /\ pc[p].at = "idle"
    /\ \E op \in PortOps, id \in PortIds :
          pc' = [pc EXCEPT ![p] = [at |-> "waiting", op |-> op, id |-> id, k |-> 0]]
    /\ UNCHANGED <<mido, db, last, lock, calls>>

(* The decorator acquires the lock and the body starts.                    *)
Enter(p) ==
    /\ pc[p].at = "waiting"
    /\ lock[synchronized(pc[p].op)] = 0
    /\ lock' = [lock EXCEPT ![synchronized(pc[p].op)] = p]
    /\ pc' = [pc EXCEPT ![p].at = "body"]
    /\ UNCHANGED <<mido, db, last, calls>>

(* The body makes its next controller call.                                *)
Call(p) ==
    /\ pc[p].at = "body"
    /\ pc[p].k < Len(ControllerCalls(pc[p].op))
    /\ calls' = Append(calls, [proc |-> p, op |-> pc[p].op, id |-> pc[p].id,
                               call |-> ControllerCalls(pc[p].op)[pc[p].k + 1]])
    /\ pc' = [pc EXCEPT ![p].k = @ + 1]
    /\ UNCHANGED <<mido, db, last, lock>>

(* The body has finished and the decorator releases the lock.  calls is    *)
(* the log of the controller calls made since no body was running.         *)
Return(p) ==
    /\ pc[p].at = "body"
    /\ pc[p].k = Len(ControllerCalls(pc[p].op))
    /\ lock' = [lock EXCEPT ![synchronized(pc[p].op)] = 0]
    /\ pc' = [pc EXCEPT ![p] = IdlePc]
    /\ calls' = IF InBody = {p} THEN <<>> ELSE calls
    /\ UNCHANGED <<mido, db, last>>

LockNext == \E p \in Procs : Invoke(p) \/ Enter(p) \/ Call(p) \/ Return(p)

SpecLock == LockInit /\ [][LockNext]_vars

(* C6: at most one invocation of create_port, update_port or delete_port   *)
(* is in its body, the one in its body holds the lock, and the controller  *)
(* calls made while a body is running all come from that one invocation:   *)
(* the calls of two concurrent port operations never interleave.           *)
C6_MutualExclusion ==
    /\ Cardinality(InBody) <= 1
    /\ \A p \in InBody : lock[synchronized(pc[p].op)] = p
    /\ \A i, j \in DOMAIN calls : calls[i].proc = calls[j].proc

(* One creation has made two of its controller calls while a second        *)
(* creation of the same port id waits.                                     *)
C6_Witness ==
    \E p, q \in Procs :
        /\ p # q
        /\ pc[p].at = "body" /\ pc[p].op = "create_port" /\ pc[p].k = 2
        /\ pc[q].at = "waiting" /\ pc[q].op = "create_port" /\ pc[q].id = pc[p].id
        /\ Len(calls) = 2

(************************* floating IP handlers ****************************)
Rollback(m, d0) == IF Ok(m) THEN m ELSE [m EXCEPT !.db = d0]

(* The routers that have their gateway on ext_net and an interface on the  *)
(* network of the port.                                                    *)
RoutersFor(d, port_id, ext_net) ==
    {r \in DOMAIN d.routers :
        /\ d.routers[r].gw_port_id \in DOMAIN d.ports
        /\ d.ports[d.routers[r].gw_port_id].network_id = ext_net
        /\ \E q \in DOMAIN d.ports :
              /\ d.ports[q].device_owner = DEVICE_OWNER_ROUTER_INTF
              /\ d.ports[q].device_id = r
              /\ d.ports[q].network_id = d.ports[port_id].network_id}

(* The error of associating the floating IP fip_id with port_id, if any.   *)
AssocError(d, fip_id, port_id, ext_net) ==
    IF port_id = None THEN "none"
    ELSE IF port_id \notin DOMAIN d.ports THEN "PortNotFound"
    ELSE IF Len(d.ports[port_id].fixed_ips) # 1 THEN "BadRequest"
    ELSE IF RoutersFor(d, port_id, ext_net) = {}
    THEN "ExternalGatewayForFloatingIPNotFound"
    ELSE IF \E g \in DOMAIN d.floatingips :
               /\ g # fip_id
               /\ d.floatingips[g].port_id = port_id
               /\ d.floatingips[g].floating_network_id = ext_net
    THEN "FloatingIPPortAlreadyAssociated"
    ELSE "none"

(* The floating IP row with its association set to port_id.                *)
Associated(d, fip, port_id) ==
    IF port_id = None
    THEN [fip EXCEPT !.port_id = None, !.fixed_ip_address = None, !.router_id = None]
    ELSE [fip EXCEPT !.port_id = port_id,
                     !.fixed_ip_address = d.ports[port_id].fixed_ips[1].ip_address,
                     !.router_id = CHOOSE r \in RoutersFor(d, port_id,
                                                           fip.floating_network_id) : TRUE]

FipPort(md, d, req) ==
    [id |-> NewId(md, "p"), network_id |-> req.floating_network_id,
     mac_address |-> "fa:" \o NewId(md, "p"),
     fixed_ips |-> <<[subnet_id |-> CHOOSE x \in DOMAIN d.subnets :
                                        d.subnets[x].network_id = req.floating_network_id,
                      ip_address |-> req.floating_ip_address]>>,
     device_owner |-> DEVICE_OWNER_FLOATINGIP, device_id |-> req.id,
     admin_state_up |-> TRUE, sg_attr_set |-> FALSE, security_groups |-> <<>>]

AddFipDb(m, req, floating_port_id) ==
    Step(m, LAMBDA t :
        IF AssocError(t.db, req.id, req.port_id, req.floating_network_id) # "none"
        THEN Raise(t, AssocError(t.db, req.id, req.port_id, req.floating_network_id))
        ELSE Wrote([t EXCEPT !.db.floatingips = (req.id :>
                 Associated(t.db,
                     [id |-> req.id, floating_ip_address |-> req.floating_ip_address,
                      floating_network_id |-> req.floating_network_id,
                      floating_port_id |-> floating_port_id, port_id |-> None,
                      fixed_ip_address |-> None, router_id |-> None],
                     req.port_id)) @@ @], <<"floatingip", req.id>>))

super_create_floatingip(m, req) ==
    LET m0 == IF Ok(m) /\ ~m.db.networks[req.floating_network_id].external
              THEN Raise(m, "BadRequest") ELSE m
    IN  AddFipDb(create_port(m0, FipPort(m.mido, m.db, req), -1), req, NewId(m.mido, "p"))

AssocNewFip(m, id) ==
    IF Ok(m) /\ m.db.floatingips[id].port_id # None
    THEN _assoc_fip(m, m.db.floatingips[id])
    ELSE m

create_floatingip(m, req) ==
    Rollback(AssocNewFip(super_create_floatingip(Begin(m), req), req.id), m.db)

super_update_floatingip(m, id, port_id) ==
    Step(m, LAMBDA t :
        IF AssocError(t.db, id, port_id, t.db.floatingips[id].floating_network_id) # "none"
        THEN Raise(t, AssocError(t.db, id, port_id,
                                 t.db.floatingips[id].floating_network_id))
        ELSE [t EXCEPT !.db.floatingips[id] = Associated(t.db, @, port_id)])

(* Changing the association without removing the old one first.            *)
UpdateFipAssocKeepOld(m, old_fip, new_fip) ==
    IF ~Ok(m) THEN m
    ELSE IF old_fip.port_id # None /\ new_fip.port_id = None
    THEN _disassoc_fip(m, old_fip)
    ELSE IF old_fip.port_id = None /\ new_fip.port_id # None
    THEN _assoc_fip(m, new_fip)
    ELSE IF old_fip.port_id # None /\ new_fip.port_id # None
            /\ old_fip.port_id # new_fip.port_id
    THEN _assoc_fip(m, new_fip)
    ELSE m

UpdateFipAssoc(m, old_fip, new_fip) ==
    IF ~Ok(m) THEN m
    ELSE IF old_fip.port_id # None /\ new_fip.port_id = None
    THEN _disassoc_fip(m, old_fip)
    ELSE IF old_fip.port_id = None /\ new_fip.port_id # None
    THEN _assoc_fip(m, new_fip)
    ELSE IF old_fip.port_id # None /\ new_fip.port_id # None
            /\ old_fip.port_id # new_fip.port_id
    THEN _assoc_fip(_disassoc_fip(m, old_fip), new_fip)
    ELSE m

UpdateFipFound(m, id, old_fip) ==
    UpdateFipAssoc(m, old_fip, m.db.floatingips[id])

update_floatingip(m, id, port_id) ==
    IF Ok(m) /\ id \notin DOMAIN m.db.floatingips THEN Raise(m, "FloatingIPNotFound")
    ELSE Rollback(UpdateFipFound(super_update_floatingip(m, id, port_id), id,
                                 m.db.floatingips[id]),
                  m.db)

super_delete_floatingip(m, id, floating_port_id) ==
    delete_port(Step(m, LAMBDA t :
                    [t EXCEPT !.db.floatingips = [f \in (DOMAIN @) \ {id} |-> @[f]]]),
                floating_port_id, FALSE)

delete_floatingip(m, id) ==
    IF Ok(m) /\ id \notin DOMAIN m.db.floatingips THEN Raise(m, "FloatingIPNotFound")
    ELSE super_delete_floatingip(
             IF m.db.floatingips[id].port_id # None
             THEN _disassoc_fip(m, m.db.floatingips[id]) ELSE m,
             id, m.db.floatingips[id].floating_port_id)

(************************ the floating IP world ****************************)
(* The link without the route for the metadata server.                     *)
_link_bridge_to_router_no_metadata(m, router, bridge_port, network_address, network_length, gw_ip, metadata_gw_ip) ==
    LET router_port == NewId(m.mido, "lp")
        m1 == client_add_router_port(m, router_port, router, gw_ip,
                                     <<network_address, network_length>>, TRUE)
        m2 == client_link(m1, router_port, bridge_port)
    IN  client_add_router_route(m2,
            Route(router, "Normal", <<"0.0.0.0", 0>>, <<network_address, network_length>>,
                  router_port, None))

_link_bridge_to_router(m, router, bridge_port, network_address, network_length, gw_ip, metadata_gw_ip) ==
    LET router_port == NewId(m.mido, "lp")
        m1 == client_add_router_port(m, router_port, router, gw_ip,
                                     <<network_address, network_length>>, TRUE)
        m2 == client_link(m1, router_port, bridge_port)
        m3 == client_add_router_route(m2,
                  Route(router, "Normal", <<"0.0.0.0", 0>>, <<network_address, network_length>>,
                        router_port, None))
    IN  IF metadata_gw_ip = None THEN m3
        ELSE client_add_router_route(m3,
                 Route(router, "Normal", <<network_address, network_length>>, METADATA_DEFAULT_IP,
                       router_port, metadata_gw_ip))

WorldPortRequest(md, owner, device_id, ip) ==
    [id |-> NewId(md, "p"), network_id |-> "n1", mac_address |-> "fa:" \o NewId(md, "p"),
     fixed_ips |-> <<[subnet_id |-> "s1", ip_address |-> ip]>>,
     device_owner |-> owner, device_id |-> device_id, admin_state_up |-> TRUE,
     sg_attr_set |-> FALSE, security_groups |-> <<>>]

WorldPort(m, ip) == create_port(m, WorldPortRequest(m.mido, DEVICE_OWNER_VIF, "vm", ip), -1)

WorldRouter(m) ==
    create_router(m,
        [id |-> NewId(m.mido, "r"), name |-> "router", admin_state_up |-> TRUE,
         has_gw_info |-> TRUE,
         gw_info |-> [network_id |-> "x1", subnet_id |-> "sx", ip_address |-> "200.0.0.5",
                      enable_snat |-> TRUE]], -1)

(* The router gets an interface on n1, as add_router_interface gives it.   *)
WorldInterface(m, router) ==
    _link_bridge_to_router(
        create_port(m, WorldPortRequest(m.mido, DEVICE_OWNER_ROUTER_INTF, router, "10.0.0.1"),
                    -1),
        router, NewId(m.mido, "p"), "10.0.0.0", 24, "10.0.0.1", None)

(* A tenant router with its gateway on x1 and an interface on n1, and two  *)
(* VIF ports on n1.                                                        *)
FipWorld ==
    WorldInterface(
        WorldPort(WorldPort(WorldRouter(Run(PortWorldMido, PortWorldDb, -1)), "10.0.0.3"),
                  "10.0.0.4"),
        "r3")

MaxFipPorts == 2

FipIds == {"f1", "f2"}

FipAddresses == {"200.0.0.10", "200.0.0.11"}

FipWorldPorts == {q \in DOMAIN FipWorld.db.ports : _is_vif_port(FipWorld.db.ports[q])}

FipsInit ==
    /\ FipWorld.err = "none"
    /\ mido = FipWorld.mido
    /\ db = FipWorld.db
    /\ last = Idle
    /\ lock = None
    /\ pc = <<>>
    /\ calls = <<>>

(* hist: the floating IPs that have been disassociated since they were     *)
(* created.                                                                *)
FipOutcome(op, id, r, before) ==
    [Idle EXCEPT !.op = op, !.id = id, !.err = r.err, !.before = before,
                 !.hist = (last.hist \cup
                           {f \in DOMAIN db.floatingips \cap DOMAIN r.db.floatingips :
                               /\ db.floatingips[f].port_id # None
                               /\ r.db.floatingips[f].port_id = None})
                          \cap DOMAIN r.db.floatingips]

CreateFloatingip ==
    /\ mido.seq < FipWorld.mido.seq + MaxFipPorts
    /\ \E f \in FipIds \ DOMAIN db.floatingips, a \in FipAddresses,
          q \in FipWorldPorts \cup {None} :
          \E r \in {create_floatingip(Run(mido, db, -1),
                        [id |-> f, floating_network_id |-> "x1",
                         floating_ip_address |-> a, port_id |-> q])} :
              /\ mido' = r.mido
              /\ db' = r.db
              /\ last' = FipOutcome("create_floatingip", f, r, None)
    /\ UNCHANGED <<lock, pc, calls>>

UpdateFloatingip ==
    /\ \E f \in DOMAIN db.floatingips, q \in FipWorldPorts \cup {None} :
          \E r \in {update_floatingip(Run(mido, db, -1), f, q)} :
              /\ mido' = r.mido
              /\ db' = r.db
              /\ last' = FipOutcome("update_floatingip", f, r, db.floatingips[f].port_id)
    /\ UNCHANGED <<lock, pc, calls>>

DeleteFloatingip ==
    /\ \E f \in DOMAIN db.floatingips :
          \E r \in {delete_floatingip(Run(mido, db, -1), f)} :
              /\ mido' = r.mido
              /\ db' = r.db
              /\ last' = FipOutcome("delete_floatingip", f, r, db.floatingips[f].port_id)
    /\ UNCHANGED <<lock, pc, calls>>

DeleteFipPort ==
    /\ \E id \in DOMAIN db.ports :
          \E r \in {delete_port(Run(mido, db, -1), id, TRUE)} :
              /\ mido' = r.mido
              /\ db' = r.db
              /\ last' = FipOutcome("delete_port", id, r, None)
    /\ UNCHANGED <<lock, pc, calls>>

FipsNext == CreateFloatingip \/ UpdateFloatingip \/ DeleteFloatingip \/ DeleteFipPort

SpecFips == FipsInit /\ [][FipsNext]_vars

(************************ floating IP properties ***************************)
(* The provider router's routes to ip/32.                                  *)
HostRoutes(ip) ==
    LET hits == {r \in DOMAIN mido.routes :
                    r.router = _get_provider_router /\ r.dst = <<ip, 32>>}
    IN  BagCardinality([r \in hits |-> mido.routes[r]])

(* The rules of the chain that are tagged with the floating IP's id.       *)
NatRules(chain, fip_id) ==
    IF chain \in DOMAIN mido.chains
    THEN Count(mido.chains[chain],
               LAMBDA r : r.properties = <<OS_FLOATING_IP_RULE_KEY, fip_id>>)
    ELSE 0

AssociatedFips == {f \in DOMAIN db.floatingips : db.floatingips[f].port_id # None}

ExactlyOne(f) ==
    /\ HostRoutes(db.floatingips[f].floating_ip_address) = 1
    /\ NatRules(_nat_chain_names(db.floatingips[f].router_id).pre_routing, f) = 1
    /\ NatRules(_nat_chain_names(db.floatingips[f].router_id).post_routing, f) = 1

(* C7: a floating IP that is associated with a port has exactly one host   *)
(* route on the provider router and exactly one NAT rule tagged with its   *)
(* id in each NAT chain of its router; an unassociated or deleted floating *)
(* IP has no tagged rule in any chain, and an address no associated        *)
(* floating IP holds has no host route.                                    *)
C7_AssociatedIffRouteAndNat ==
    /\ \A f \in AssociatedFips : ExactlyOne(f)
    /\ \A f \in FipIds \ AssociatedFips :
          \A c \in DOMAIN mido.chains : NatRules(c, f) = 0
    /\ \A f \in AssociatedFips :
          \A c \in DOMAIN mido.chains :
              NatRules(c, f) > 0 =>
                  c \in {_nat_chain_names(db.floatingips[f].router_id).pre_routing,
                         _nat_chain_names(db.floatingips[f].router_id).post_routing}
    /\ \A a \in FipAddresses :
          (\A f \in AssociatedFips : db.floatingips[f].floating_ip_address # a) =>
              HostRoutes(a) = 0

(* Both floating IPs have been created, one is associated and the other    *)
(* has just been deleted after its port was deleted.                       *)
C7_Witness ==
    /\ last.op = "delete_floatingip" /\ last.err = "none"
    /\ Cardinality(AssociatedFips) = 1
    /\ Cardinality(DOMAIN db.floatingips) = 1
    /\ \E q \in FipWorldPorts : q \notin DOMAIN db.ports

Reassociated ==
    /\ last.op = "update_floatingip" /\ last.err = "none"
    /\ last.id \in AssociatedFips
    /\ \/ last.before = None /\ last.id \in last.hist
       \/ last.before # None /\ last.before # db.floatingips[last.id].port_id

(* C8: after update_floatingip has associated a floating IP that had been  *)
(* disassociated before, or has moved it from one port to another, there   *)
(* is exactly one host route for its address and exactly one NAT rule      *)
(* tagged with its id in each NAT chain.                                   *)
C8_ExactlyOneAfterReassociation ==
    Reassociated =>
        /\ HostRoutes(db.floatingips[last.id].floating_ip_address) = 1
        /\ NatRules(_nat_chain_names(db.floatingips[last.id].router_id).pre_routing,
                    last.id) = 1
        /\ NatRules(_nat_chain_names(db.floatingips[last.id].router_id).post_routing,
                    last.id) = 1

(* A floating IP is associated again after it was disassociated.           *)
C8_Witness ==
    /\ Reassociated
    /\ last.before = None
    /\ last.id \in last.hist

(* A floating IP is moved from one port to another.                        *)
C8_WitnessMove ==
    /\ Reassociated
    /\ last.before # None

(*********************** security group handlers ***************************)
(* net_util.get_protocol_value: the protocol number of a protocol name.    *)
get_protocol_value(protocol) ==
    IF protocol = "tcp" THEN <<6>>
    ELSE IF protocol = "udp" THEN <<17>>
    ELSE IF protocol = "icmp" THEN <<1>>
    ELSE <<>>

(* net_util.get_ethertype_value *)
get_ethertype_value(ethertype) ==
    IF ethertype = "IPv4" THEN <<ETHERTYPE_IPV4>>
    ELSE IF ethertype = "IPv6" THEN <<ETHERTYPE_IPV6>>
    ELSE IF ethertype = "ARP" THEN <<ETHERTYPE_ARP>>
    ELSE <<>>

SgChainName(sg_id, direction) ==
    IF direction = "ingress" THEN _sg_chain_names(sg_id).ingress
    ELSE _sg_chain_names(sg_id).egress

(* The remote side of the rule taken as the destination in both            *)
(* directions.                                                             *)
AcceptKwDestination(sg_rule, props) ==
    [KW EXCEPT !.properties = props,
               !.match_forward_flow = (sg_rule.direction = "egress"),
               !.ip_addr_group_dst = sg_rule.remote_group_id,
               !.dst_addr = sg_rule.remote_ip_prefix,
               !.dst_port_from = sg_rule.port_range_min,
               !.dst_port_to = sg_rule.port_range_max,
               !.nw_proto = get_protocol_value(sg_rule.protocol),
               !.dl_type = get_ethertype_value(sg_rule.ethertype)]

(* The keyword arguments of the accept rule of a logical rule.             *)
AcceptKw(sg_rule, props) ==
    IF sg_rule.direction = "egress"
    THEN [KW EXCEPT !.properties = props,
                    !.match_forward_flow = TRUE,
                    !.ip_addr_group_dst = sg_rule.remote_group_id,
                    !.dst_addr = sg_rule.remote_ip_prefix,
                    !.dst_port_from = sg_rule.port_range_min,
                    !.dst_port_to = sg_rule.port_range_max,
                    !.nw_proto = get_protocol_value(sg_rule.protocol),
                    !.dl_type = get_ethertype_value(sg_rule.ethertype)]
    ELSE [KW EXCEPT !.properties = props,
                    !.match_forward_flow = FALSE,
                    !.ip_addr_group_src = sg_rule.remote_group_id,
                    !.src_addr = sg_rule.remote_ip_prefix,
                    !.dst_port_from = sg_rule.port_range_min,
                    !.dst_port_to = sg_rule.port_range_max,
                    !.nw_proto = get_protocol_value(sg_rule.protocol),
                    !.dl_type = get_ethertype_value(sg_rule.ethertype)]

(* The chain the rule goes to: the one handed in, else the one looked up   *)
(* by name.                                                                *)
AcceptChain(md, sg_rule, chain) ==
    IF chain # None THEN chain
    ELSE client_get_chain_by_name(md, SgChainName(sg_rule.security_group_id,
                                                  sg_rule.direction))

AddAcceptRule(m, chain, kw) ==
    IF Ok(m) /\ chain = None THEN Raise(m, "MidonetResourceNotFound")
    ELSE _add_chain_rule(m, chain, "accept", kw, 1)

(* The rule is tagged with the id of the group in place of the rule's.     *)
_create_accept_chain_rule_group_tag(m, sg_rule, chain) ==
    AddAcceptRule(m, AcceptChain(m.mido, sg_rule, chain),
                  AcceptKw(sg_rule, <<OS_SG_RULE_KEY, sg_rule.security_group_id>>))

_create_accept_chain_rule(m, sg_rule, chain) ==
    AddAcceptRule(m, AcceptChain(m.mido, sg_rule, chain),
                  AcceptKw(sg_rule, <<OS_SG_RULE_KEY, sg_rule.id>>))

(* Deletes the rule that has this id on the controller.  The controller    *)
(* gives each rule an id of its own when it creates it, and never the id   *)
(* of a logical rule: called with the id of a logical rule, the call       *)
(* finds no rule to delete.                                                *)
client_remove_chain_rule(m, id) == Step(m, LAMBDA t : t)

(* A logical rule with the same attributes (the id apart).                 *)
SameRule(a, b) == [a EXCEPT !.id = None] = [b EXCEPT !.id = None]

BulkError(d, rules) ==
    IF \E i \in DOMAIN rules : rules[i].security_group_id \notin DOMAIN d.security_groups
    THEN "SecurityGroupNotFound"
    ELSE IF \E i \in DOMAIN rules : rules[i].security_group_id # rules[1].security_group_id
    THEN "SecurityGroupRulesNotSingleGroupRules"
    ELSE IF \/ \E i, j \in DOMAIN rules : i # j /\ SameRule(rules[i], rules[j])
            \/ \E i \in DOMAIN rules, x \in DOMAIN d.sg_rules :
                  SameRule(rules[i], d.sg_rules[x])
    THEN "SecurityGroupRuleExists"
    ELSE "none"

(* create_security_group_rule_bulk_native of the relational store.         *)
super_create_security_group_rule_bulk_native(m, rules) ==
    Step(m, LAMBDA t :
        IF BulkError(t.db, rules) # "none" THEN Raise(t, BulkError(t.db, rules))
        ELSE [t EXCEPT !.db.sg_rules =
                 [x \in {rules[i].id : i \in DOMAIN rules} |->
                     rules[CHOOSE i \in DOMAIN rules : rules[i].id = x]] @@ @,
                       !.mido.seq = @ + Len(rules)])

(* for j in xrange(0, i): self.client.remove_chain_rule(rules[j]['id'])    *)
RECURSIVE RemoveChainRules(_, _, _, _)
RemoveChainRules(m, rules, j, i) ==
    IF j > i THEN m
    ELSE RemoveChainRules(client_remove_chain_rule(m, rules[j].id), rules, j + 1, i)

(* try: the accept rule of rules[i], then the removal calls.               *)
BulkRule(m, rules, i) ==
    RemoveChainRules(_create_accept_chain_rule(m, rules[i], None), rules, 1, i)

(* except Exception: the removal calls, then raise.                        *)
BulkRuleCaught(body, rules, i, comp_budget, d0) ==
    IF Ok(body) THEN body
    ELSE RaisedBare(body, RemoveChainRules(Handler(body, comp_budget), rules, 1, i), d0)

RECURSIVE CreateAcceptRules(_, _, _, _, _)
CreateAcceptRules(m, rules, i, comp_budget, d0) ==
    IF i > Len(rules) \/ ~Ok(m) THEN m
    ELSE CreateAcceptRules(BulkRuleCaught(BulkRule(m, rules, i), rules, i, comp_budget, d0),
                           rules, i + 1, comp_budget, d0)

create_security_group_rule_bulk(m, rules, comp_budget) ==
    CreateAcceptRules(super_create_security_group_rule_bulk_native(m, rules), rules, 1,
                      comp_budget, m.db)

create_security_group_rule(m, rule, comp_budget) ==
    create_security_group_rule_bulk(m, <<rule>>, comp_budget)

super_delete_security_group_rule(m, sg_rule_id) ==
    Step(m, LAMBDA t :
        [t EXCEPT !.db.sg_rules = [x \in (DOMAIN @) \ {sg_rule_id} |-> @[x]]])

DeleteRuleFound(m, rule) ==
    super_delete_security_group_rule(
        client_remove_rules_by_property(m, SgChainName(rule.security_group_id, rule.direction),
                                        OS_SG_RULE_KEY, rule.id),
        rule.id)

delete_security_group_rule(m, sg_rule_id) ==
    IF sg_rule_id \notin DOMAIN m.db.sg_rules THEN Raise(m, "SecurityGroupRuleNotFound")
    ELSE Rollback(DeleteRuleFound(m, m.db.sg_rules[sg_rule_id]), m.db)

(* The rules the relational store gives a new group: per ethertype, for    *)
(* the default group an ingress rule from the group itself, and an egress  *)
(* rule.                                                                   *)
GroupRule(sg_id, direction, ethertype, remote_group_id) ==
    [id |-> sg_id \o "-" \o direction \o "-" \o ethertype, security_group_id |-> sg_id,
     direction |-> direction, ethertype |-> ethertype, protocol |-> None,
     port_range_min |-> <<>>, port_range_max |-> <<>>, remote_ip_prefix |-> <<>>,
     remote_group_id |-> remote_group_id]

GroupRules(sg) ==
    IF sg.name = "default"
    THEN <<GroupRule(sg.id, "ingress", "IPv4", sg.id), GroupRule(sg.id, "egress", "IPv4", None),
           GroupRule(sg.id, "ingress", "IPv6", sg.id), GroupRule(sg.id, "egress", "IPv6", None)>>
    ELSE <<GroupRule(sg.id, "egress", "IPv4", None), GroupRule(sg.id, "egress", "IPv6", None)>>

super_create_security_group(m, sg) ==
    Step(m, LAMBDA t :
        UseId([t EXCEPT !.db.security_groups = (sg.id :> [name |-> sg.name]) @@ @,
                        !.db.sg_rules =
                            [x \in {GroupRules(sg)[i].id : i \in DOMAIN GroupRules(sg)} |->
                                GroupRules(sg)[CHOOSE i \in DOMAIN GroupRules(sg) :
                                                   GroupRules(sg)[i].id = x]] @@ @]))

RECURSIVE CreateSgChains(_, _, _)
CreateSgChains(m, sg_id, order) ==
    IF order = <<>> THEN m
    ELSE CreateSgChains(client_create_chain(m, SgChainName(sg_id, Head(order))), sg_id,
                        Tail(order))

RECURSIVE CreateSgRules(_, _)
CreateSgRules(m, rules) ==
    IF rules = <<>> THEN m
    ELSE CreateSgRules(
             _create_accept_chain_rule(m, Head(rules),
                 SgChainName(Head(rules).security_group_id, Head(rules).direction)),
             Tail(rules))

(* The try block; order is the order in which the dictionary of chain      *)
(* names yields the two directions.                                        *)
CreateSgBody(m, sg, order) ==
    CreateSgRules(CreateSgChains(client_create_ip_addr_group(m, sg.id), sg.id, order),
                  GroupRules(sg))

(* except Exception: the group is deleted from the relational store.       *)
create_security_group_except(body, sg, comp_budget, d0) ==
    Reraised(body, Step(Handler(body, comp_budget), LAMBDA t : [t EXCEPT !.db = d0]), d0)

CreateSgCaught(body, sg, comp_budget, d0) ==
    IF Ok(body) THEN body ELSE create_security_group_except(body, sg, comp_budget, d0)

CreateSg(m, sg, order, comp_budget) ==
    IF ~Ok(m) THEN m
    ELSE CreateSgCaught(CreateSgBody(super_create_security_group(m, sg), sg, order),
                        sg, comp_budget, m.db)

HasDefaultSg(d) == \E g \in DOMAIN d.security_groups : d.security_groups[g].name = "default"

(* The default group is created first when the tenant has none.            *)
_ensure_default_security_group(m, order, comp_budget) ==
    IF HasDefaultSg(m.db) THEN m
    ELSE CreateSg(m, [id |-> NewId(m.mido, "sg"), name |-> "default"], order, comp_budget)

SgRequest(m, name) == [id |-> NewId(m.mido, "sg"), name |-> name]

CreateNamedSg(m, name, order, comp_budget) ==
    CreateSg(m, SgRequest(m, name), order, comp_budget)

create_security_group(m, name, default_sg, order, comp_budget) ==
    IF default_sg THEN CreateNamedSg(m, name, order, comp_budget)
    ELSE CreateNamedSg(_ensure_default_security_group(m, order, comp_budget), name, order,
                       comp_budget)

super_delete_security_group(m, id) ==
    Step(m, LAMBDA t :
        [t EXCEPT !.db.security_groups = [g \in (DOMAIN @) \ {id} |-> @[g]],
                  !.db.sg_rules =
                      [x \in {y \in DOMAIN @ : /\ @[y].security_group_id # id
                                               /\ @[y].remote_group_id # id} |-> @[x]]])

DeleteSgFound(m, id) ==
    super_delete_security_group(
        client_delete_ip_addr_group(
            client_delete_chains_by_names(m, {_sg_chain_names(id).ingress,
                                              _sg_chain_names(id).egress}),
            id),
        id)

(* The check of the group's port bindings is left out.                     *)
delete_security_group_unchecked(m, id, is_admin) ==
    IF id \notin DOMAIN m.db.security_groups THEN Raise(m, "SecurityGroupNotFound")
    ELSE IF m.db.security_groups[id].name = "default" /\ ~is_admin
    THEN Raise(m, "SecurityGroupCannotRemoveDefault")
    ELSE Rollback(DeleteSgFound(m, id), m.db)

delete_security_group(m, id, is_admin) ==
    IF id \notin DOMAIN m.db.security_groups THEN Raise(m, "SecurityGroupNotFound")
    ELSE IF m.db.security_groups[id].name = "default" /\ ~is_admin
    THEN Raise(m, "SecurityGroupCannotRemoveDefault")
    ELSE IF \E b \in m.db.sg_bindings : b[2] = id
    THEN Raise(m, "SecurityGroupInUse")
    ELSE Rollback(DeleteSgFound(m, id), m.db)

(********************** the security group world ***************************)
(* The port world with one VIF port on n1 that is bound to sg_ids.  A call *)
(* to create_security_group_rule_bulk carries two rules.                   *)
SgWorld(sg_ids) ==
    create_port(Run(PortWorldMido, PortWorldDb, -1),
                [WorldPortRequest(PortWorldMido, DEVICE_OWNER_VIF, "vm", "10.0.0.3")
                    EXCEPT !.sg_attr_set = TRUE, !.security_groups = sg_ids],
                -1)

SgWorldSeq == PortWorldMido.seq + 1

(* The groups and logical rules a run may create.                          *)
MaxSgNew == 2

(* The remote call at which a failure may be injected.                     *)
MaxSgFailAt == 5

SgBudgets == {-1} \cup 0..MaxSgFailAt

Directions == {"ingress", "egress"}

RuleTemplates ==
    {[protocol |-> "tcp", port_range_min |-> <<22>>, port_range_max |-> <<22>>,
      remote_ip_prefix |-> <<"0.0.0.0", 0>>],
     [protocol |-> "icmp", port_range_min |-> <<8>>, port_range_max |-> <<0>>,
      remote_ip_prefix |-> <<>>]}

RuleRequest(md, i, sg_id, direction, t) ==
    [id |-> "sr" \o ToString(md.seq + i), security_group_id |-> sg_id,
     direction |-> direction, ethertype |-> "IPv4", protocol |-> t.protocol,
     port_range_min |-> t.port_range_min, port_range_max |-> t.port_range_max,
     remote_ip_prefix |-> t.remote_ip_prefix, remote_group_id |-> None]

BulkRequests(md, d) ==
    {<<RuleRequest(md, 1, g, d1, t1), RuleRequest(md, 2, g, d2, t2)>> :
        g \in DOMAIN d.security_groups,
        d1 \in Directions, d2 \in Directions, t1 \in RuleTemplates, t2 \in RuleTemplates}

SgInit ==
    /\ SgWorld(<<"sg1", "sg2">>).err = "none"
    /\ mido = SgWorld(<<"sg1", "sg2">>).mido
    /\ db = SgWorld(<<"sg1", "sg2">>).db
    /\ last = Idle
    /\ lock = None
    /\ pc = <<>>
    /\ calls = <<>>

SgOutcome(op, id, r, arg) ==
    [Idle EXCEPT !.op = op, !.id = id, !.err = r.err, !.orig = r.orig, !.comp = r.comp,
                 !.arg = arg]

CreateSecurityGroup ==
    /\ mido.seq < SgWorldSeq + MaxSgNew
    /\ \E order \in {<<"ingress", "egress">>, <<"egress", "ingress">>} :
          \E r \in {create_security_group(Run(mido, db, -1), "web", FALSE, order, -1)} :
              /\ mido' = r.mido
              /\ db' = r.db
              /\ last' = SgOutcome("create_security_group", NewId(mido, "sg"), r, <<>>)
    /\ UNCHANGED <<lock, pc, calls>>

DeleteSecurityGroup ==
    /\ \E id \in DOMAIN db.security_groups, is_admin \in BOOLEAN :
          \E r \in {delete_security_group(Run(mido, db, -1), id, is_admin)} :
              /\ mido' = r.mido
              /\ db' = r.db
              /\ last' = SgOutcome("delete_security_group", id, r, <<is_admin>>)
    /\ UNCHANGED <<lock, pc, calls>>

CreateSecurityGroupRule ==
    /\ mido.seq < SgWorldSeq + MaxSgNew
    /\ \E g \in DOMAIN db.security_groups, d \in Directions, t \in RuleTemplates :
          \E r \in {create_security_group_rule(Run(mido, db, -1),
                                               RuleRequest(mido, 1, g, d, t), -1)} :
              /\ mido' = r.mido
              /\ db' = r.db
              /\ last' = SgOutcome("create_security_group_rule", g, r,
                                   <<RuleRequest(mido, 1, g, d, t).id>>)
    /\ UNCHANGED <<lock, pc, calls>>

CreateSecurityGroupRuleBulk ==
    /\ mido.seq + 2 <= SgWorldSeq + MaxSgNew
    /\ \E rules \in BulkRequests(mido, db), b \in SgBudgets, c \in CompBudgets :
          \E r \in {create_security_group_rule_bulk(Run(mido, db, b), rules, c)} :
              /\ mido' = r.mido
              /\ db' = r.db
              /\ last' = SgOutcome("create_security_group_rule_bulk",
                                   rules[1].security_group_id, r,
                                   [i \in DOMAIN rules |-> rules[i].id])
    /\ UNCHANGED <<lock, pc, calls>>

DeleteSecurityGroupRule ==
    /\ \E id \in DOMAIN db.sg_rules :
          \E r \in {delete_security_group_rule(Run(mido, db, -1), id)} :
              /\ mido' = r.mido
              /\ db' = r.db
              /\ last' = SgOutcome("delete_security_group_rule", id, r, <<>>)
    /\ UNCHANGED <<lock, pc, calls>>

SgDeletePort ==
    /\ \E id \in DOMAIN db.ports :
          \E r \in {delete_port(Run(mido, db, -1), id, TRUE)} :
              /\ mido' = r.mido
              /\ db' = r.db
              /\ last' = SgOutcome("delete_port", id, r, <<>>)
    /\ UNCHANGED <<lock, pc, calls>>

SgNext ==
    \/ CreateSecurityGroup
    \/ DeleteSecurityGroup
    \/ CreateSecurityGroupRule
    \/ CreateSecurityGroupRuleBulk
    \/ DeleteSecurityGroupRule
    \/ SgDeletePort

SpecSg == SgInit /\ [][SgNext]_vars

(********************* security group properties ***************************)
(* The step is a call to delete_security_group on a group that has a port  *)
(* binding when the call is made.                                          *)
DeleteOfBoundGroup ==
    /\ last'.op = "delete_security_group"
    /\ \E b \in db.sg_bindings : b[2] = last'.id

(* The group's chains with their rules, its IP address group, the logical  *)
(* group and its logical rules are as they were, and so is all else on the *)
(* controller: no call has deleted anything.                               *)
NothingDeleted ==
    /\ mido' = mido
    /\ db' = db
    /\ {_sg_chain_names(last'.id).ingress, _sg_chain_names(last'.id).egress}
           \subseteq DOMAIN mido'.chains
    /\ last'.id \in DOMAIN mido'.ipgs
    /\ last'.id \in DOMAIN db'.security_groups

(* C9, as claimed: delete_security_group on a group with at least one port *)
(* binding fails with the in-use error and deletes neither the group's     *)
(* chains nor its IP address group nor the logical group.                  *)
C9_BoundGroupInUse ==
    [][DeleteOfBoundGroup => (last'.err = "SecurityGroupInUse" /\ NothingDeleted)]_vars

(* C9, amended: delete_security_group on a group with at least one port    *)
(* binding fails, with the cannot-remove-default error when the group is   *)
(* named default and the caller is not an administrator and with the       *)
(* in-use error otherwise, and in both cases deletes neither the group's   *)
(* chains nor its IP address group nor the logical group.                  *)
C9_BoundGroupKept ==
    [][DeleteOfBoundGroup =>
          /\ last'.err = IF db.security_groups[last'.id].name = "default" /\ ~last'.arg[1]
                         THEN "SecurityGroupCannotRemoveDefault"
                         ELSE "SecurityGroupInUse"
          /\ NothingDeleted]_vars

(* A group that is bound to a port was refused with the in-use error.     *)
C9_Witness ==
    /\ last.op = "delete_security_group"
    /\ last.err = "SecurityGroupInUse"
    /\ \E b \in db.sg_bindings : b[2] = last.id

(* The accept rules of chain that are tagged with the logical rule's id.   *)
TaggedAccepts(chain, sg_rule_id) ==
    SelectSeq(mido.chains[chain],
              LAMBDA r : r.action = "accept" /\ r.properties = <<OS_SG_RULE_KEY, sg_rule_id>>)

RuleCreated ==
    /\ last.op \in {"create_security_group_rule", "create_security_group_rule_bulk"}
    /\ last.err = "none"

IsIngressTcp22(r) ==
    /\ r.direction = "ingress"
    /\ r.protocol = "tcp"
    /\ r.port_range_min = <<22>>
    /\ r.port_range_max = <<22>>

(* The one tagged accept rule of every logical rule the call created, in   *)
(* the chain of the rule's group and direction.                            *)
ExactlyOneTagged(Flow(_)) ==
    \A i \in DOMAIN last.arg :
        /\ last.arg[i] \in DOMAIN db.sg_rules
        /\ LET r == db.sg_rules[last.arg[i]]
               chain == SgChainName(r.security_group_id, r.direction)
           IN  /\ chain \in DOMAIN mido.chains
               /\ Len(TaggedAccepts(chain, r.id)) = 1
               /\ IsIngressTcp22(r) =>
                     /\ TaggedAccepts(chain, r.id)[1].tp_dst = [start |-> <<22>>, end |-> <<22>>]
                     /\ TaggedAccepts(chain, r.id)[1].nw_proto = <<6>>
                     /\ Flow(TaggedAccepts(chain, r.id)[1])

HasGwOn(d, router_id, network_id) ==
    /\ d.routers[router_id].gw_port_id # None
    /\ d.ports[d.routers[router_id].gw_port_id].network_id = network_id

SetEnableSnat(m, router_id, gw_info) ==
    Step(m, LAMBDA t :
        [t EXCEPT !.db.routers[router_id].enable_snat =
                      IF gw_info.network_id = None THEN TRUE ELSE gw_info.enable_snat])

ClearGwPort(m, router_id) ==
    Step(m, LAMBDA t :
        IF \E f \in DOMAIN t.db.floatingips : t.db.floatingips[f].router_id = router_id
        THEN Raise(t, "RouterExternalGatewayInUseByFloatingIp")
        ELSE [t EXCEPT !.db.routers[router_id].gw_port_id = None])

DropOldGw(m, router_id, gw_port_id) ==
    delete_port(ClearGwPort(m, router_id), gw_port_id, FALSE)

NewGw(m, router_id, gw_info) ==
    IF ~Ok(m) \/ gw_info.network_id = None THEN m
    ELSE _update_router_gw_info(m, router_id, gw_info, -1)

UpdateGwInfo(m, router_id, gw_info) ==
    IF ~Ok(m) \/ HasGwOn(m.db, router_id, gw_info.network_id) THEN m
    ELSE IF m.db.routers[router_id].gw_port_id # None
    THEN NewGw(DropOldGw(m, router_id, m.db.routers[router_id].gw_port_id), router_id, gw_info)
    ELSE NewGw(m, router_id, gw_info)

super_update_router(m, id, router_data) ==
    IF ~Ok(m) THEN m
    ELSE IF id \notin DOMAIN m.db.routers THEN Raise(m, "RouterNotFound")
    ELSE IF ~router_data.has_gw_info THEN Step(m, LAMBDA t : t)
    ELSE UpdateGwInfo(SetEnableSnat(m, id, router_data.gw_info), id, router_data.gw_info)

client_update_router(m, id) ==
    Step(m, LAMBDA t :
        IF id \in t.mido.routers THEN t ELSE Raise(t, "MidonetResourceNotFound"))

(* if gw_updated and the router has gateway info: self._set_up_gateway     *)
UpdatedGateway(m, id, router_data) ==
    IF Ok(m) /\ router_data.has_gw_info /\ m.db.routers[id].gw_port_id # None
    THEN _set_up_gateway(m, m.db.routers[id])
    ELSE m

update_router(m, id, router_data) ==
    Rollback(client_update_router(
                 UpdatedGateway(super_update_router(m, id, router_data), id, router_data),
                 id),
             m.db)

(* delete_router of the relational store: a router with floating IPs or    *)
(* interfaces is in use; the router's gateway port goes with the router,   *)
(* deleted in the relational store only.                                   *)
RouterInUse(d, id) ==
    \/ \E f \in DOMAIN d.floatingips : d.floatingips[f].router_id = id
    \/ \E q \in DOMAIN d.ports : /\ d.ports[q].device_id = id
                                 /\ _is_router_interface_port(d.ports[q])

super_delete_router(m, id) ==
    Step(m, LAMBDA t :
        IF id \notin DOMAIN t.db.routers THEN Raise(t, "RouterNotFound")
        ELSE IF RouterInUse(t.db, id) THEN Raise(t, "RouterInUse")
        ELSE [t EXCEPT !.db.routers = [x \in (DOMAIN @) \ {id} |-> @[x]],
                       !.db.ports = [q \in {y \in DOMAIN @ :
                                            ~(@[y].device_id = id /\ _is_router_gw_port(@[y]))}
                                        |-> @[q]]])

delete_router(m, id) ==
    client_delete_router(client_delete_router_chains(super_delete_router(m, id), id), id)

(***************************** the router world ****************************)
(* Identifiers a run may use up: a router with a gateway takes four (the   *)
(* router, its gateway port and the two link ports), each further set-up   *)
(* of a gateway two.                                                       *)
MaxRouterIds == 8

GwInfos ==
    {[network_id |-> "x1", subnet_id |-> "sx", ip_address |-> "200.0.0.5",
      enable_snat |-> snat] : snat \in BOOLEAN}
    \cup {[network_id |-> None, subnet_id |-> None, ip_address |-> None,
           enable_snat |-> TRUE]}

RouterUpdates ==
    {[has_gw_info |-> TRUE, gw_info |-> g] : g \in GwInfos}
    \cup {[has_gw_info |-> FALSE, gw_info |-> CHOOSE g \in GwInfos : g.network_id = None]}

(* before: the controller ports there were when the call was made; arg:    *)
(* whether the call asked for a gateway, and whether with SNAT.            *)
RouterOutcome(op, id, r, asked) ==
    [Idle EXCEPT !.op = op, !.id = id, !.err = r.err, !.before = DOMAIN mido.ports,
                 !.arg = asked]

Asked(data) ==
    <<data.has_gw_info /\ data.gw_info.network_id # None, data.gw_info.enable_snat>>

CreateRouter ==
    /\ mido.seq + 4 <= PortWorldMido.seq + MaxRouterIds
    /\ \E req \in RouterRequests(mido) :
          \E r \in {create_router(Run(mido, db, -1), req, -1)} :
              /\ mido' = r.mido
              /\ db' = r.db
              /\ last' = RouterOutcome("create_router", req.id, r, Asked(req))
    /\ UNCHANGED <<lock, pc, calls>>

UpdateRouter ==
    /\ mido.seq + 3 <= PortWorldMido.seq + MaxRouterIds
    /\ \E id \in DOMAIN db.routers, data \in RouterUpdates :
          \E r \in {update_router(Run(mido, db, -1), id, data)} :
              /\ mido' = r.mido
              /\ db' = r.db
              /\ last' = RouterOutcome("update_router", id, r, Asked(data))
    /\ UNCHANGED <<lock, pc, calls>>

DeleteRouter ==
    /\ \E id \in DOMAIN db.routers :
          \E r \in {delete_router(Run(mido, db, -1), id)} :
              /\ mido' = r.mido
              /\ db' = r.db
              /\ last' = RouterOutcome("delete_router", id, r, <<FALSE, FALSE>>)
    /\ UNCHANGED <<lock, pc, calls>>

RoutersNext == CreateRouter \/ UpdateRouter \/ DeleteRouter

SpecRouters == PortsInit /\ [][RoutersNext]_vars

(*************************** gateway properties ****************************)
GatewaySetUp ==
    /\ last.op \in {"create_router", "update_router"}
    /\ last.err = "none"
    /\ last.arg[1]

NewLinkPorts(device) ==
    {p \in (DOMAIN mido.ports) \ last.before : mido.ports[p].device_id = device}

SnatRules(chain, kind) ==
    SelectSeq(mido.chains[chain],
              LAMBDA r : /\ r.properties = <<OS_TENANT_ROUTER_RULE_KEY, SNAT_RULE>>
                         /\ r.action = kind)

(* The tagged rule of the chain translates to g through a port of the      *)
(* router that is linked to the provider router.                           *)
SnatThroughUplink(rule, router, g) ==
    /\ rule.nat_target = g
    /\ rule.port \in DOMAIN mido.ports
    /\ mido.ports[rule.port].device_id = router
    /\ mido.ports[rule.port].peer_id \in DOMAIN mido.ports
    /\ mido.ports[mido.ports[rule.port].peer_id].device_id = _get_provider_router

GatewayOf(router, g, snat) ==
    /\ \E r \in DOMAIN mido.routes :
          /\ r.router = _get_provider_router
          /\ r.dst = <<g, 32>>
          /\ r.next_hop_port \in NewLinkPorts(_get_provider_router)
    /\ \E r \in DOMAIN mido.routes :
          /\ r.router = router
          /\ r.dst = <<"0.0.0.0", 0>>
          /\ r.next_hop_port \in NewLinkPorts(router)
    /\ snat =>
          /\ Len(SnatRules(_nat_chain_names(router).post_routing, "snat")) = 1
          /\ Len(SnatRules(_nat_chain_names(router).pre_routing, "rev_snat")) = 1
          /\ SnatThroughUplink(SnatRules(_nat_chain_names(router).post_routing, "snat")[1],
                               router, g)
          /\ SnatThroughUplink(SnatRules(_nat_chain_names(router).pre_routing, "rev_snat")[1],
                               router, g)
    /\ ~snat =>
          /\ SnatRules(_nat_chain_names(router).post_routing, "snat") = <<>>
          /\ SnatRules(_nat_chain_names(router).pre_routing, "rev_snat") = <<>>

(* C11: after create_router or update_router has set up a gateway with     *)
(* address g for router R, the provider router has a route to g/32 through *)
(* the new provider-side link port, R has a default route through its own  *)
(* new link port, and R's NAT chains hold one SNAT rule pair tagged SNAT   *)
(* that translates to g through the uplink port when SNAT is enabled, and  *)
(* none when it is disabled.                                               *)
C11_GatewaySetUp ==
    GatewaySetUp =>
        GatewayOf(last.id,
                  db.ports[db.routers[last.id].gw_port_id].fixed_ips[1].ip_address,
                  last.arg[2])

(******************************* networks **********************************)
client_create_bridge(m, id) ==
    Step(m, LAMBDA t :
        Created(UseId([t EXCEPT !.mido.bridges = @ \cup {id}]), <<"bridge", id>>))

(* Deleting a bridge removes its ports and its DHCP subnets with it.       *)
client_delete_bridge(m, id) ==
    Step(m, LAMBDA t :
        IF id \in t.mido.bridges
        THEN Deleted([t EXCEPT
                 !.mido.bridges = @ \ {id},
                 !.mido.ports = [p \in {q \in DOMAIN t.mido.ports :
                                           t.mido.ports[q].device_id # id} |-> @[p]],
                 !.mido.dhcp_subnets = {x \in @ : x[1] # id}],
                 <<"bridge", id>>)
        ELSE Raise(t, "MidonetResourceNotFound"))

client_create_dhcp(m, bridge, cidr) ==
    Step(m, LAMBDA t :
        IF bridge \in t.mido.bridges
        THEN Created([t EXCEPT !.mido.dhcp_subnets = @ \cup {<<bridge, cidr>>}],
                     <<"dhcp", bridge, cidr>>)
        ELSE Raise(t, "MidonetResourceNotFound"))

(* The store generates an id for a request that carries none.              *)
generate_uuid(d) == "uuid" \o ToString(Cardinality(DOMAIN d.networks) + 1)

NetId(d, n) == IF n.id # None THEN n.id ELSE generate_uuid(d)

(* The request without the id of the bridge.                               *)
NetDataOwnId(network, bridge_id) == network

(* net_data['id'] = bridge.get_id()                                        *)
NetData(network, bridge_id) == [network EXCEPT !.id = bridge_id]

super_create_network(m, id) ==
    Step(m, LAMBDA t :
        Wrote([t EXCEPT !.db.networks = (id :> [external |-> FALSE]) @@ @],
              <<"network", id>>))

_process_l3_create(m, id, net_data) ==
    IF ~net_data.external THEN m
    ELSE Step(m, LAMBDA t : [t EXCEPT !.db.networks[id].external = TRUE])

(* The transaction of create_network.                                      *)
CreateNetworkDb(m, id, net_data) ==
    Rollback(_process_l3_create(super_create_network(Begin(m), id), id, net_data), m.db)

CreateNetworkData(m, net_data) == CreateNetworkDb(m, NetId(m.db, net_data), net_data)

CreateBridge(m, network) ==
    CreateNetworkData(client_create_bridge(m, NewId(m.mido, "n")),
                      NetData(network, NewId(m.mido, "n")))

create_network(m, network) ==
    CreateBridge(_ensure_default_security_group(m, <<"ingress", "egress">>, -1), network)

(******************************** subnets **********************************)
super_create_subnet(m, s) ==
    Step(m, LAMBDA t :
        IF \E x \in DOMAIN t.db.subnets :
              t.db.subnets[x].network_id = s.network_id /\ t.db.subnets[x].cidr = s.cidr
        THEN Raise(t, "InvalidInput")
        ELSE Wrote([t EXCEPT !.db.subnets =
                       (s.id :> [network_id |-> s.network_id, ip_version |-> 4,
                                 cidr |-> s.cidr, enable_dhcp |-> s.enable_dhcp,
                                 gateway_ip |-> s.gateway_ip]) @@ @],
                   <<"subnet", s.id>>))

LinkProviderPorts(m, gw_port, port, cidr) ==
    client_add_router_route(
        client_link(m, gw_port, port),
        Route(_get_provider_router, "BlackHole", <<"0.0.0.0", 0>>, net_addr(cidr), None,
              None))

LinkProviderBridge(m, gw_port, bridge, cidr) ==
    LinkProviderPorts(client_add_bridge_port(m, NewId(m.mido, "lp"), bridge, TRUE),
                      gw_port, NewId(m.mido, "lp"), cidr)

_link_to_provider_router(m, bridge, gw_ip, cidr) ==
    LinkProviderBridge(
        client_add_router_port(m, NewId(m.mido, "lp"), _get_provider_router, gw_ip,
                               net_addr(cidr), TRUE),
        NewId(m.mido, "lp"), bridge, cidr)

LinkExternalSubnet(m, external, s) ==
    IF Ok(m) /\ external /\ s.gateway_ip # None
    THEN _link_to_provider_router(m, s.network_id, s.gateway_ip, s.cidr)
    ELSE m

(* The DHCP subnet is created on the bridge before the local write.        *)
CreateSubnetDhcpFirst(m, s) ==
    Rollback(LinkExternalSubnet(
                 super_create_subnet(Begin(client_create_dhcp(m, s.network_id, s.cidr)), s),
                 m.db.networks[s.network_id].external, s),
             m.db)

CreateSubnetFound(m, s) ==
    Rollback(LinkExternalSubnet(
                 client_create_dhcp(super_create_subnet(Begin(m), s), s.network_id, s.cidr),
                 m.db.networks[s.network_id].external, s),
             m.db)

create_subnet(m, s) ==
    IF s.network_id \notin DOMAIN m.db.networks THEN Raise(m, "NetworkNotFound")
    ELSE CreateSubnetFound(m, s)

(***************************** the create world ****************************)
MaxCreateIds == 4
MaxCreateFailAt == 3

CreateBudgets == {-1} \cup 0..MaxCreateFailAt

NetworkRequests == {[id |-> None, external |-> e] : e \in BOOLEAN}

SubnetRequests(d) ==
    {[id |-> "s" \o n, network_id |-> n, cidr |-> <<"201.0.0.0", 24>>, gateway_ip |-> g,
      enable_dhcp |-> TRUE] :
        n \in DOMAIN d.networks, g \in {None, "201.0.0.1"}}

CreateOutcome(op, id, r) == [Outcome(op, id, r) EXCEPT !.log = r.log]

CreateNetwork ==
    /\ mido.seq + 1 <= PortWorldMido.seq + MaxCreateIds
    /\ \E network \in NetworkRequests, budget \in CreateBudgets :
          \E r \in {create_network(Run(mido, db, budget), network)} :
              /\ mido' = r.mido
              /\ db' = r.db
              /\ last' = CreateOutcome("create_network", NewId(mido, "n"), r)
    /\ UNCHANGED <<lock, pc, calls>>

CreateSubnet ==
    /\ mido.seq + 2 <= PortWorldMido.seq + MaxCreateIds
    /\ \E s \in SubnetRequests(db) :
          /\ s.id \notin DOMAIN db.subnets
          /\ \E r \in {create_subnet(Run(mido, db, -1), s)} :
                 /\ mido' = r.mido
                 /\ db' = r.db
                 /\ last' = CreateOutcome("create_subnet", s.id, r)
    /\ UNCHANGED <<lock, pc, calls>>

CreateWorldPort ==
    /\ mido.seq + 1 <= PortWorldMido.seq + MaxCreateIds
    /\ \E o \in {DEVICE_OWNER_VIF, DEVICE_OWNER_DHCP} :
          \E r \in {create_port(Run(mido, db, -1),
                                WorldPortRequest(mido, o, "vm", "10.0.0.3"), -1)} :
              /\ mido' = r.mido
              /\ db' = r.db
              /\ last' = CreateOutcome("create_port", NewId(mido, "p"), r)
    /\ UNCHANGED <<lock, pc, calls>>

CreateWorldRouter ==
    /\ mido.seq + 4 <= PortWorldMido.seq + MaxCreateIds
    /\ \E req \in RouterRequests(mido) :
          \E r \in {create_router(Run(mido, db, -1), req, -1)} :
              /\ mido' = r.mido
              /\ db' = r.db
              /\ last' = CreateOutcome("create_router", req.id, r)
    /\ UNCHANGED <<lock, pc, calls>>

CreateWorldFloatingip ==
    /\ mido.seq + 1 <= PortWorldMido.seq + MaxCreateIds
    /\ \E f \in FipIds \ DOMAIN db.floatingips, a \in FipAddresses :
          \E r \in {create_floatingip(Run(mido, db, -1),
                        [id |-> f, floating_network_id |-> "x1",
                         floating_ip_address |-> a, port_id |-> None])} :
              /\ mido' = r.mido
              /\ db' = r.db
              /\ last' = CreateOutcome("create_floatingip", f, r)
    /\ UNCHANGED <<lock, pc, calls>>

CreateNext ==
    \/ CreateNetwork
    \/ CreateSubnet
    \/ CreateWorldPort
    \/ CreateWorldRouter
    \/ CreateWorldFloatingip

SpecCreate == PortsInit /\ [][CreateNext]_vars

(************************* properties of the creates ***********************)
Creates ==
    {"create_network", "create_port", "create_router", "create_subnet",
     "create_floatingip"}

Completed == last.op \in Creates /\ last.err = "none"

IsLocal(e) == e[1] = "local"

IsRemote(e) == e[1] = "remote"

IsBegin(e) == e = <<"begin">>

LocalBefore(log, i) == \E j \in 1..(i - 1) : IsLocal(log[j])

ScopeOpenAt(log, j) == \E k \in 1..(j - 1) : IsBegin(log[k])

FirstLocal(log) ==
    log[CHOOSE j \in DOMAIN log : IsLocal(log[j]) /\ ~LocalBefore(log, j)]

(* The controller object whose id the logical entity takes, and for a      *)
(* router its two chains.                                                  *)
Counterpart(remote, local) ==
    \/ /\ <<remote[2], local[2]>> \in
              {<<"bridge", "network">>, <<"port", "port">>, <<"router", "router">>}
       /\ remote[3] = local[3]
    \/ /\ remote[2] = "chain"
       /\ local[2] = "router"
       /\ remote[3] \in {_nat_chain_names(local[3]).pre_routing,
                          _nat_chain_names(local[3]).post_routing}

C13_BridgeDeletedOnFailure ==
    (last.op = "create_network" /\ last.err # "none") =>
        /\ \A i \in DOMAIN last.created :
              last.created[i][1] = "bridge" => last.created[i][2] \notin mido.bridges
        /\ mido.bridges \subseteq DOMAIN db.networks

LogicalKinds == {"network", "port", "router"}

ControllerKind(kind) == IF kind = "network" THEN "bridge" ELSE kind

InStore(kind, id) ==
    id \in DOMAIN (IF kind = "network" THEN db.networks
                   ELSE IF kind = "port" THEN db.ports ELSE db.routers)

OnController(kind, id) ==
    id \in (IF kind = "network" THEN mido.bridges
            ELSE IF kind = "port" THEN DOMAIN mido.ports ELSE mido.routers)

OpKind(op) ==
    IF op = "create_network" THEN "network"
    ELSE IF op = "create_port" THEN "port" ELSE "router"

CreatedBefore(log, j, kind, id) ==
    \E i \in 1..(j - 1) : log[i] = <<"remote", ControllerKind(kind), id>>

(* C15: after create_network, create_port or create_router has completed,  *)
(* every logical network, port and router the call wrote is in the store   *)
(* under the id of a bridge, bridge port or router that the same call      *)
(* created on the controller before, and that is on the controller.        *)
C15_IdOfControllerObject ==
    (Completed /\ last.op \in {"create_network", "create_port", "create_router"}) =>
        /\ \E j \in DOMAIN last.log :
              IsLocal(last.log[j]) /\ last.log[j][2] = OpKind(last.op)
        /\ \A j \in DOMAIN last.log :
              (IsLocal(last.log[j]) /\ last.log[j][2] \in LogicalKinds) =>
                  /\ CreatedBefore(last.log, j, last.log[j][2], last.log[j][3])
                  /\ InStore(last.log[j][2], last.log[j][3])
                  /\ OnController(last.log[j][2], last.log[j][3])

(* create_network has completed in a state that also holds a port and a    *)
(* router made by create_port and create_router.                           *)
C15_Witness ==
    /\ Completed
    /\ last.op = "create_network"
    /\ last.id \in DOMAIN db.networks
    /\ last.id \in mido.bridges
    /\ DOMAIN db.ports # {}
    /\ DOMAIN db.routers # {}

(*************************** deleting a network ****************************)
NetworkInUse(d, id) ==
    \E q \in DOMAIN d.ports : d.ports[q].network_id = id /\ ~_is_dhcp_port(d.ports[q])

(* The network goes with its subnets and its DHCP ports.                   *)
super_delete_network(m, id) ==
    Step(m, LAMBDA t :
        IF NetworkInUse(t.db, id) THEN Raise(t, "NetworkInUse")
        ELSE [t EXCEPT !.db.networks = [x \in (DOMAIN @) \ {id} |-> @[x]],
                       !.db.subnets = [x \in {y \in DOMAIN @ : @[y].network_id # id}
                                          |-> @[x]],
                       !.db.ports = [q \in {y \in DOMAIN @ : @[y].network_id # id}
                                        |-> @[q]]])

SubnetsOf(d, id) == {x \in DOMAIN d.subnets : d.subnets[x].network_id = id}

(* _get_subnet is asked for the subnets the network had before the local   *)
(* delete.                                                                 *)
UnlinkDeletedNetwork(m, net, subnets) ==
    IF Ok(m) /\ net.external /\ subnets \ DOMAIN m.db.subnets # {}
    THEN Raise(m, "SubnetNotFound")
    ELSE m

DeleteNetworkFound(m, id) ==
    client_delete_bridge(
        UnlinkDeletedNetwork(super_delete_network(m, id), m.db.networks[id],
                             SubnetsOf(m.db, id)),
        id)

delete_network(m, id) ==
    IF id \notin DOMAIN m.db.networks THEN Raise(m, "NetworkNotFound")
    ELSE DeleteNetworkFound(m, id)

(************************ the world of life cycles *************************)
(* Only calls that complete without error are taken.                       *)
MaxLifeIds == 4

LifeOutcome(op, id, r) == [Idle EXCEPT !.op = op, !.id = id, !.deleted = r.deleted]

LifeCreateNetwork ==
    /\ mido.seq + 1 <= PortWorldMido.seq + MaxLifeIds
    /\ \E r \in {create_network(Run(mido, db, -1), [id |-> None, external |-> FALSE])} :
          /\ Ok(r)
          /\ mido' = r.mido
          /\ db' = r.db
          /\ last' = LifeOutcome("create_network", NewId(mido, "n"), r)
    /\ UNCHANGED <<lock, pc, calls>>

LifeDeleteNetwork ==
    /\ \E id \in DOMAIN db.networks :
          \E r \in {delete_network(Run(mido, db, -1), id)} :
              /\ Ok(r)
              /\ mido' = r.mido
              /\ db' = r.db
              /\ last' = LifeOutcome("delete_network", id, r)
    /\ UNCHANGED <<lock, pc, calls>>

LifeCreatePort ==
    /\ mido.seq + 1 <= PortWorldMido.seq + MaxLifeIds
    /\ \E o \in {DEVICE_OWNER_VIF, DEVICE_OWNER_DHCP}, ip \in {"10.0.0.3", "10.0.0.4"} :
          \E r \in {create_port(Run(mido, db, -1), WorldPortRequest(mido, o, "vm", ip), -1)} :
              /\ Ok(r)
              /\ mido' = r.mido
              /\ db' = r.db
              /\ last' = LifeOutcome("create_port", NewId(mido, "p"), r)
    /\ UNCHANGED <<lock, pc, calls>>

LifeDeletePort ==
    /\ \E id \in DOMAIN db.ports :
          \E r \in {delete_port(Run(mido, db, -1), id, TRUE)} :
              /\ Ok(r)
              /\ mido' = r.mido
              /\ db' = r.db
              /\ last' = LifeOutcome("delete_port", id, r)
    /\ UNCHANGED <<lock, pc, calls>>

LifeCreateRouter ==
    /\ mido.seq + 4 <= PortWorldMido.seq + MaxLifeIds
    /\ \E req \in RouterRequests(mido) :
          \E r \in {create_router(Run(mido, db, -1), req, -1)} :
              /\ Ok(r)
              /\ mido' = r.mido
              /\ db' = r.db
              /\ last' = LifeOutcome("create_router", req.id, r)
    /\ UNCHANGED <<lock, pc, calls>>

LifeDeleteRouter ==
    /\ \E id \in DOMAIN db.routers :
          \E r \in {delete_router(Run(mido, db, -1), id)} :
              /\ Ok(r)
              /\ mido' = r.mido
              /\ db' = r.db
              /\ last' = LifeOutcome("delete_router", id, r)
    /\ UNCHANGED <<lock, pc, calls>>

LifeCreateSecurityGroup ==
    /\ mido.seq + 1 <= PortWorldMido.seq + MaxLifeIds
    /\ \E r \in {create_security_group(Run(mido, db, -1), "web", FALSE,
                                        <<"ingress", "egress">>, -1)} :
          /\ Ok(r)
          /\ mido' = r.mido
          /\ db' = r.db
          /\ last' = LifeOutcome("create_security_group", NewId(mido, "sg"), r)
    /\ UNCHANGED <<lock, pc, calls>>

LifeDeleteSecurityGroup ==
    /\ \E id \in DOMAIN db.security_groups :
          \E r \in {delete_security_group(Run(mido, db, -1), id, FALSE)} :
              /\ Ok(r)
              /\ mido' = r.mido
              /\ db' = r.db
              /\ last' = LifeOutcome("delete_security_group", id, r)
    /\ UNCHANGED <<lock, pc, calls>>

LifeNext ==
    \/ LifeCreateNetwork
    \/ LifeDeleteNetwork
    \/ LifeCreatePort
    \/ LifeDeletePort
    \/ LifeCreateRouter
    \/ LifeDeleteRouter
    \/ LifeCreateSecurityGroup
    \/ LifeDeleteSecurityGroup

SpecLife == PortsInit /\ [][LifeNext]_vars

(*********************** correspondence of the stores **********************)
(* The identifiers the controller has handed out so far.                   *)
IdsSoFar(prefix) == {prefix \o ToString(k) : k \in 1..mido.seq}

(* A bridge port that _link_to_provider_router made to link a bridge to    *)
(* the provider router.                                                    *)
IsProviderLink(p) ==
    /\ mido.ports[p].peer_id \in DOMAIN mido.ports
    /\ mido.ports[mido.ports[p].peer_id].device_id = PROVIDER_ROUTER

HasChainPair(names) == {names[1], names[2]} \cap DOMAIN mido.chains # {}

BridgesHaveNetworks == mido.bridges \subseteq DOMAIN db.networks

BridgePortsHavePorts ==
    \A p \in DOMAIN mido.ports :
        (mido.ports[p].type = "Bridge" /\ ~IsProviderLink(p)) => p \in DOMAIN db.ports

RoutersHaveRouters == mido.routers \ {PROVIDER_ROUTER} \subseteq DOMAIN db.routers

PortChainsHaveVifPorts ==
    \A p \in IdsSoFar("p") :
        HasChainPair(<<_port_chain_names(p).inbound, _port_chain_names(p).outbound>>)
            => p \in VifPorts

SgObjectsHaveGroups ==
    /\ \A g \in IdsSoFar("sg") :
          HasChainPair(<<_sg_chain_names(g).ingress, _sg_chain_names(g).egress>>)
              => g \in DOMAIN db.security_groups
    /\ DOMAIN mido.ipgs \subseteq DOMAIN db.security_groups

(* C14: in every state reached by calls that all completed without error,  *)
(* every bridge has a logical network, every bridge port other than the    *)
(* links to the provider router a logical port, every router other than    *)
(* the provider router a logical router, every port chain a VIF port, and  *)
(* every security group chain and IP address group a security group.       *)
C14_StoresCorrespond ==
    /\ BridgesHaveNetworks
    /\ BridgePortsHavePorts
    /\ RoutersHaveRouters
    /\ PortChainsHaveVifPorts
    /\ SgObjectsHaveGroups

(***************************** the world of names **************************)
(* Identifiers, among them some that contain pieces of the templates.      *)
NameIds ==
    {"1", "2", "1_INBOUND", "1_OUTBOUND", "1_INGRESS", "1_EGRESS", "ROUTING_1",
     "PORT_1", "SG_1", "T_ROUTING_1"}

MaxNames == 2

(* calls: the names handed out so far, each with its role and its id.      *)
NamesInit ==
    /\ mido = PortWorldMido
    /\ db = PortWorldDb
    /\ last = Idle
    /\ lock = None
    /\ pc = <<>>
    /\ calls = {}

Named(op, id, names) ==
    /\ Cardinality(calls) + 2 <= 2 * MaxNames
    /\ calls' = calls \cup names
    /\ last' = [Idle EXCEPT !.op = op, !.id = id]
    /\ UNCHANGED <<mido, db, lock, pc>>

NatChainNames ==
    \E id \in NameIds :
        Named("_nat_chain_names", id,
              {<<"pre-routing", id, _nat_chain_names(id).pre_routing>>,
               <<"post-routing", id, _nat_chain_names(id).post_routing>>})

SgChainNames ==
    \E id \in NameIds :
        Named("_sg_chain_names", id,
              {<<"ingress", id, _sg_chain_names(id).ingress>>,
               <<"egress", id, _sg_chain_names(id).egress>>})

PortChainNames ==
    \E id \in NameIds :
        Named("_port_chain_names", id,
              {<<"inbound", id, _port_chain_names(id).inbound>>,
               <<"outbound", id, _port_chain_names(id).outbound>>})

SgIpAddrGroupName ==
    \E id \in NameIds :
        Named("_sg_ip_addr_group_name", id,
              {<<"ip_addr_group", id, _sg_ip_addr_group_name(id)>>})

NamesNext == NatChainNames \/ SgChainNames \/ PortChainNames \/ SgIpAddrGroupName

SpecNames == NamesInit /\ [][NamesNext]_vars

NameOf(role, id) ==
    IF role = "pre-routing" THEN _nat_chain_names(id).pre_routing
    ELSE IF role = "post-routing" THEN _nat_chain_names(id).post_routing
    ELSE IF role = "ingress" THEN _sg_chain_names(id).ingress
    ELSE IF role = "egress" THEN _sg_chain_names(id).egress
    ELSE IF role = "inbound" THEN _port_chain_names(id).inbound
    ELSE IF role = "outbound" THEN _port_chain_names(id).outbound
    ELSE _sg_ip_addr_group_name(id)

(* C16: a name handed out for a role and an id is the name the function    *)
(* gives for them again, and two names handed out for one role are equal   *)
(* only when their ids are.                                                *)
C16_NamesInjectivePerRole ==
    /\ \A t \in calls : t[3] = NameOf(t[1], t[2])
    /\ \A t, u \in calls : (t[1] = u[1] /\ t[3] = u[3]) => t[2] = u[2]

(* Names were handed out for one role and two ids, one of which contains   *)
(* the suffix of the role's template.                                      *)
C16_Witness ==
    \E t, u \in calls :
        /\ t[1] = "inbound" /\ u[1] = "inbound"
        /\ t[2] = "1" /\ u[2] = "1_INBOUND"
        /\ t[3] # u[3]

(* C17: two names handed out for different roles differ, whatever their    *)
(* ids.                                                                    *)
C17_NamesDifferAcrossRoles ==
    \A t, u \in calls : t[1] # u[1] => t[3] # u[3]

(* Names were handed out for two roles with ids that carry the other       *)
(* role's pieces of the template.                                          *)
C17_Witness ==
    \E t, u \in calls :
        /\ t[1] = "ingress" /\ u[1] = "egress"
        /\ t[2] = "1_EGRESS" /\ u[2] = "1_INGRESS"

(************************ delete_port that fails ***************************)
MaxDeleteFailAt == 6

DeleteBudgets == {-1} \cup 0..MaxDeleteFailAt

DeletePortFail ==
    /\ NoFailureYet
    /\ \E id \in DOMAIN db.ports, budget \in DeleteBudgets :
          \E r \in {delete_port(Run(mido, db, budget), id, TRUE)} :
              /\ mido' = r.mido
              /\ db' = r.db
              /\ last' = [CreateOutcome("delete_port", id, r) EXCEPT
                              !.before = DOMAIN mido.ports]
    /\ UNCHANGED <<lock, pc, calls>>

DeleteFailNext == CreatePort \/ DeletePortFail

SpecDeleteFail == PortsInit /\ [][DeleteFailNext]_vars

DhcpCleanUpFailed ==
    /\ last.op = "delete_port"
    /\ \E i \in DOMAIN last.log : last.log[i] = <<"failed", "delete_dhcp_host">>

(* C18: when the removal of a DHCP host has failed during delete_port, the *)
(* call raises nothing, the controller port it had is deleted and the      *)
(* logical port is deleted.                                                *)
C18_DhcpFailureOnlyLogged ==
    DhcpCleanUpFailed =>
        /\ last.err = "none"
        /\ last.id \in last.before
        /\ last.id \notin DOMAIN mido.ports
        /\ last.id \notin DOMAIN db.ports

(* The removal of a DHCP host has failed, and the host is still on the     *)
(* bridge.                                                                 *)
C18_Witness ==
    /\ DhcpCleanUpFailed
    /\ last.id \notin DOMAIN db.ports
    /\ \E h \in mido.dhcp_hosts : h[1] = "n1"

(**************************** the plugin object ****************************)
(* self after the configuration values are read and the client is built:   *)
(* neither makes a call to the controller.                                 *)
NewPlugin(provider_router_id) ==
    [at |-> "new", provider_router_id |-> provider_router_id, provider_router |-> None,
     client |-> TRUE, conn |-> None, db_configured |-> FALSE, err |-> "none"]

setup_rpc(self) == [self EXCEPT !.conn = "consumer"]

configure_db(self) == [self EXCEPT !.db_configured = TRUE, !.at = "ready"]

(* The constructor without the check of provider_router_id.                *)
__init___unchecked(provider_router_id) ==
    configure_db(setup_rpc(NewPlugin(provider_router_id)))

__init__(provider_router_id) ==
    IF provider_router_id = None
    THEN [NewPlugin(provider_router_id) EXCEPT !.err = "MidonetPluginException",
                                               !.at = "failed"]
    ELSE configure_db(setup_rpc(NewPlugin(provider_router_id)))

(* A lookup that is made whatever the cache holds.                         *)
LookupAlways(self) == TRUE

(* if self.provider_router is None                                         *)
LookupNeeded(self) == self.provider_router = None

(* The object that client.get_router returns for the k-th lookup.          *)
RouterObject(id, k) == id \o "@" \o ToString(k)

(**************************** the plugin world *****************************)
MaxThreads == 2
MaxCalls == 3

Threads == 1..MaxThreads

ConfiguredIds == {None, PROVIDER_ROUTER, "gone"}

IdleThread == [at |-> "idle", got |-> None, err |-> "none", n |-> 0, cached |-> FALSE]

(* last: the plugin object; calls: the calls made to the controller; pc:   *)
(* where each thread of the process is in _get_provider_router.            *)
PluginInit ==
    /\ mido = PortWorldMido
    /\ db = PortWorldDb
    /\ last \in {[NewPlugin(c) EXCEPT !.at = "unloaded"] : c \in ConfiguredIds}
    /\ lock = None
    /\ pc = [t \in Threads |-> IdleThread]
    /\ calls = <<>>

LoadPlugin ==
    /\ last.at = "unloaded"
    /\ last' = __init__(last.provider_router_id)
    /\ UNCHANGED <<mido, db, lock, pc, calls>>

(* _get_provider_router up to the call of client.get_router.               *)
GetProviderRouter(t) ==
    /\ last.at = "ready"
    /\ pc[t].at = "idle"
    /\ pc[t].n < MaxCalls
    /\ IF LookupNeeded(last)
       THEN /\ pc' = [pc EXCEPT ![t] = [@ EXCEPT !.at = "get_router", !.got = None,
                                                  !.err = "none", !.cached = FALSE]]
            /\ calls' = Append(calls, <<"get_router", last.provider_router_id>>)
       ELSE /\ pc' = [pc EXCEPT ![t] = [@ EXCEPT !.got = last.provider_router,
                                                  !.err = "none", !.n = @ + 1,
                                                  !.cached = TRUE]]
            /\ calls' = calls
    /\ UNCHANGED <<mido, db, last, lock>>

(* client.get_router returns the router: it is stored and returned.        *)
GetRouterReturns(t) ==
    /\ pc[t].at = "get_router"
    /\ last.provider_router_id \in mido.routers
    /\ last' = [last EXCEPT !.provider_router =
                                RouterObject(last.provider_router_id, Len(calls))]
    /\ pc' = [pc EXCEPT ![t] = [@ EXCEPT !.at = "idle", !.n = @ + 1,
                                         !.got = RouterObject(last.provider_router_id,
                                                              Len(calls))]]
    /\ UNCHANGED <<mido, db, lock, calls>>

(* client.get_router raises: nothing is stored.                            *)
GetRouterRaises(t) ==
    /\ pc[t].at = "get_router"
    /\ pc' = [pc EXCEPT ![t] = [@ EXCEPT !.at = "idle", !.n = @ + 1,
                                         !.err = IF last.provider_router_id \in mido.routers
                                                 THEN "MidonetApiException"
                                                 ELSE "MidonetResourceNotFound"]]
    /\ UNCHANGED <<mido, db, last, lock, calls>>

PluginNext ==
    \/ LoadPlugin
    \/ \E t \in Threads : GetProviderRouter(t)
    \/ \E t \in Threads : GetRouterReturns(t)
    \/ \E t \in Threads : GetRouterRaises(t)

SpecPlugin == PluginInit /\ [][PluginNext]_vars

(* C19: once the constructor has run with no provider router id            *)
(* configured, it has raised MidonetPluginException, no call to the        *)
(* controller was made, no RPC consumer is set up and the store is not     *)
(* configured.                                                             *)
C19_MissingProviderRouterId ==
    (last.at # "unloaded" /\ last.provider_router_id = None) =>
        /\ last.at = "failed"
        /\ last.err = "MidonetPluginException"
        /\ calls = <<>>
        /\ last.conn = None
        /\ ~last.db_configured

(* The constructor has run without a provider router id.                   *)
C19_Witness == last.at = "failed" /\ last.provider_router_id = None

Lookups == Len(calls)

(* C20, as stated: the process looks the provider router up at most once.  *)
C20_OneLookup == Lookups <= 1

(* C20, amended: a call of _get_provider_router that starts when an        *)
(* earlier call has stored the router returns the stored object and makes  *)
(* no lookup; the stored router is never cleared.  Calls that start        *)
(* before a lookup has returned the router each make a lookup of their     *)
(* own.                                                                    *)
C20_CachedAfterFirstReturn ==
    [][/\ last.at = "ready" /\ last.provider_router # None
           => last'.provider_router # None
       /\ \A t \in Threads :
             (/\ last.at = "ready"
              /\ last.provider_router # None
              /\ pc[t].at = "idle"
              /\ pc'[t] # pc[t])
                 => /\ calls' = calls
                    /\ pc'[t].at = "idle"
                    /\ pc'[t].got = last.provider_router]_vars

(* A call has returned the stored router without a lookup, after two       *)
(* lookups were made.                                                      *)
C20_Witness ==
    /\ Lookups = 2
    /\ \E t \in Threads : pc[t].cached /\ pc[t].got = last.provider_router

(***************************** the DHCP poll *******************************)
(* @retryloop(5, 1)                                                        *)
DHCP_ATTEMPTS == 5

DhcpPorts(d, network_id) ==
    {q \in DOMAIN d.ports : d.ports[q].network_id = network_id /\ _is_dhcp_port(d.ports[q])}

(* One query: the address of the DHCP port the query lists first, which    *)
(* may be any of the network's DHCP ports.                                 *)
_get_dhcp_port_ip(d, network_id) ==
    IF DhcpPorts(d, network_id) = {} THEN {None}
    ELSE {IF d.ports[q].fixed_ips # <<>> THEN d.ports[q].fixed_ips[1].ip_address ELSE None :
             q \in DhcpPorts(d, network_id)}

(* A loop that goes on whatever the query gave.                            *)
FoundNever(result) == FALSE

(* if result is None: time.sleep(delay) else: return result                *)
Found(result) == result # None

(* for i in range(attempts)                                                *)
MoreAttempts(i, attempts) == i + 1 < attempts

(***************************** the poll world ******************************)
MaxPollPorts == 2

IdlePoll == [at |-> "idle", i |-> 0, result |-> None]

(* pc: where the poll is; calls: what its queries gave, in order.  Other   *)
(* requests create and delete DHCP ports on n1 while the poll runs.        *)
PollInit ==
    /\ mido = PortWorldMido
    /\ db = PortWorldDb
    /\ last = Idle
    /\ lock = None
    /\ pc = IdlePoll
    /\ calls = <<>>

PollCall ==
    /\ pc.at = "idle"
    /\ pc' = [pc EXCEPT !.at = "query"]
    /\ UNCHANGED <<mido, db, last, lock, calls>>

PollQuery ==
    /\ pc.at = "query"
    /\ \E result \in _get_dhcp_port_ip(db, "n1") :
          /\ calls' = Append(calls, result)
          /\ pc' = IF Found(result) THEN [pc EXCEPT !.at = "returned", !.result = result]
                   ELSE [pc EXCEPT !.at = "sleep"]
    /\ UNCHANGED <<mido, db, last, lock>>

PollSleep ==
    /\ pc.at = "sleep"
    /\ pc' = IF MoreAttempts(pc.i, DHCP_ATTEMPTS)
             THEN [pc EXCEPT !.at = "query", !.i = @ + 1]
             ELSE [pc EXCEPT !.at = "returned", !.result = None]
    /\ UNCHANGED <<mido, db, last, lock, calls>>

DhcpPortRequests(md) ==
    {[WorldPortRequest(md, DEVICE_OWNER_DHCP, "dhcp", "10.0.0.2") EXCEPT !.fixed_ips = ips] :
        ips \in {<<>>, <<[subnet_id |-> "s1", ip_address |-> "10.0.0.2"]>>}}

PollCreateDhcpPort ==
    /\ mido.seq < PortWorldMido.seq + MaxPollPorts
    /\ \E req \in DhcpPortRequests(mido) :
          \E r \in {create_port(Run(mido, db, -1), req, -1)} :
              /\ mido' = r.mido
              /\ db' = r.db
              /\ last' = [Idle EXCEPT !.op = "create_port", !.id = req.id, !.err = r.err]
    /\ UNCHANGED <<lock, pc, calls>>

PollDeleteDhcpPort ==
    /\ \E id \in DOMAIN db.ports :
          \E r \in {delete_port(Run(mido, db, -1), id, TRUE)} :
              /\ mido' = r.mido
              /\ db' = r.db
              /\ last' = [Idle EXCEPT !.op = "delete_port", !.id = id, !.err = r.err]
    /\ UNCHANGED <<lock, pc, calls>>

PollNext ==
    \/ PollCall
    \/ PollQuery
    \/ PollSleep
    \/ PollCreateDhcpPort
    \/ PollDeleteDhcpPort

(* A query and a sleep that can be made are made.                          *)
SpecPoll == PollInit /\ [][PollNext]_vars /\ WF_vars(PollQuery \/ PollSleep)

PollBounded ==
    /\ Len(calls) <= DHCP_ATTEMPTS
    /\ \A k \in 1..(Len(calls) - 1) : calls[k] = None
    /\ pc.at = "returned" =>
          /\ calls # <<>>
          /\ pc.result = calls[Len(calls)]
          /\ pc.result = None => Len(calls) = DHCP_ATTEMPTS

(* C21: the poll makes at most five queries, every query before the last   *)
(* one gave no address, the poll returns what its last query gave, it      *)
(* returns None only after five queries, and a poll that was called        *)
(* returns.                                                                *)
C21_PollTerminates == []PollBounded /\ (pc.at = "query" ~> pc.at = "returned")

(* The poll has returned None: five queries found no address, while a      *)
(* DHCP port without an address was on the network.                        *)
C21_Witness ==
    /\ pc.at = "returned"
    /\ pc.result = None
    /\ Len(calls) = DHCP_ATTEMPTS
    /\ DhcpPorts(db, "n1") # {}

(************************** add_router_interface ***************************)
(* The decorated _get_dhcp_port_ip: results[k] is what the k-th query      *)
(* gives.                                                                  *)
RECURSIVE retryloop(_, _, _)
retryloop(results, i, attempts) ==
    IF Found(results[i + 1]) THEN results[i + 1]
    ELSE IF MoreAttempts(i, attempts) THEN retryloop(results, i + 1, attempts)
    ELSE None

HasInterfaceOn(d, router_id, subnet_id) ==
    \E q \in DOMAIN d.ports :
        /\ d.ports[q].device_id = router_id
        /\ _is_router_interface_port(d.ports[q])
        /\ \E i \in DOMAIN d.ports[q].fixed_ips : d.ports[q].fixed_ips[i].subnet_id = subnet_id

InterfacePort(md, d, router_id, subnet_id) ==
    [id |-> NewId(md, "p"), network_id |-> d.subnets[subnet_id].network_id,
     mac_address |-> "fa:" \o NewId(md, "p"),
     fixed_ips |-> <<[subnet_id |-> subnet_id,
                      ip_address |-> d.subnets[subnet_id].gateway_ip]>>,
     device_owner |-> DEVICE_OWNER_ROUTER_INTF, device_id |-> router_id,
     admin_state_up |-> TRUE, sg_attr_set |-> FALSE, security_groups |-> <<>>]

(* The router gets a port with the subnet's gateway address.               *)
super_add_router_interface(m, router_id, subnet_id) ==
    IF router_id \notin DOMAIN m.db.routers THEN Raise(m, "RouterNotFound")
    ELSE IF subnet_id \notin DOMAIN m.db.subnets THEN Raise(m, "SubnetNotFound")
    ELSE IF m.db.subnets[subnet_id].gateway_ip = None
            \/ HasInterfaceOn(m.db, router_id, subnet_id)
    THEN Raise(m, "BadRequest")
    ELSE create_port(m, InterfacePort(m.mido, m.db, router_id, subnet_id), -1)

client_get_router(m, id) ==
    IF Ok(m) /\ id \notin m.mido.routers THEN Raise(m, "MidonetResourceNotFound") ELSE m

(* The try block of add_router_interface.                                  *)
LinkInterface(m, router_id, port_id, subnet, metadata_gw_ip) ==
    IF ~Ok(m) THEN m
    ELSE _link_bridge_to_router(get_port(client_get_router(m, router_id), port_id),
                                router_id, port_id, net_addr(subnet.cidr)[1],
                                net_addr(subnet.cidr)[2], subnet.gateway_ip, metadata_gw_ip)

(* The interface port is deleted again.                                    *)
remove_router_interface(m, router_id, port_id) == delete_port(m, port_id, FALSE)

(* The local write of add_router_interface is committed before the try     *)
(* block: the store is what the except clause leaves.                      *)
ReraisedCommitted(body, h) ==
    [h EXCEPT !.err = save_and_reraise_exception(body.err, h.err),
              !.budget = body.budget, !.fault = body.fault,
              !.orig = body.err, !.comp = h.err]

add_router_interface_except(body, router_id, port_id, comp_budget) ==
    ReraisedCommitted(body,
        remove_router_interface(Handler(body, comp_budget), router_id, port_id))

AddInterfaceCaught(body, router_id, port_id, comp_budget) ==
    IF Ok(body) THEN body
    ELSE add_router_interface_except(body, router_id, port_id, comp_budget)

AddInterfaceTry(m, router_id, port_id, subnet_id, metadata_gw_ip, comp_budget) ==
    IF ~Ok(m) THEN m
    ELSE AddInterfaceCaught(
             LinkInterface(m, router_id, port_id, m.db.subnets[subnet_id], metadata_gw_ip),
             router_id, port_id, comp_budget)

add_router_interface(m, router_id, subnet_id, results, comp_budget) ==
    AddInterfaceTry(super_add_router_interface(Begin(m), router_id, subnet_id),
                    router_id, NewId(m.mido, "p"), subnet_id,
                    retryloop(results, 0, DHCP_ATTEMPTS), comp_budget)

(*************************** the interface world ***************************)
(* A tenant router without gateway and without interface.                  *)
InterfaceWorld ==
    create_router(Run(PortWorldMido, PortWorldDb, -1),
        [id |-> NewId(PortWorldMido, "r"), name |-> "router", admin_state_up |-> TRUE,
         has_gw_info |-> FALSE,
         gw_info |-> [network_id |-> None, subnet_id |-> None, ip_address |-> None,
                      enable_snat |-> TRUE]], -1)

MaxInterfaceIds == 4
MaxInterfaceFailAt == 6

InterfaceBudgets == {-1} \cup 0..MaxInterfaceFailAt

InterfaceInit ==
    /\ InterfaceWorld.err = "none"
    /\ mido = InterfaceWorld.mido
    /\ db = InterfaceWorld.db
    /\ last = Idle
    /\ lock = None
    /\ pc = <<>>
    /\ calls = <<>>

InterfaceCreateDhcpPort ==
    /\ mido.seq + 1 <= InterfaceWorld.mido.seq + MaxInterfaceIds
    /\ \E req \in DhcpPortRequests(mido) :
          \E r \in {create_port(Run(mido, db, -1), req, -1)} :
              /\ mido' = r.mido
              /\ db' = r.db
              /\ last' = [Idle EXCEPT !.op = "create_port", !.id = req.id, !.err = r.err]
    /\ UNCHANGED <<lock, pc, calls>>

(* arg: what the queries of the poll gave.                                 *)
AddRouterInterface ==
    /\ mido.seq + 2 <= InterfaceWorld.mido.seq + MaxInterfaceIds
    /\ \E id \in DOMAIN db.routers, budget \in InterfaceBudgets, comp_budget \in CompBudgets,
          results \in [1..DHCP_ATTEMPTS -> _get_dhcp_port_ip(db, "n1")] :
          \E r \in {add_router_interface(Run(mido, db, budget), id, "s1", results,
                                         comp_budget)} :
              /\ mido' = r.mido
              /\ db' = r.db
              /\ last' = [Outcome("add_router_interface", NewId(mido, "p"), r) EXCEPT
                              !.arg = results, !.before = id]
    /\ UNCHANGED <<lock, pc, calls>>

InterfaceNext == InterfaceCreateDhcpPort \/ AddRouterInterface

SpecInterface == InterfaceInit /\ [][InterfaceNext]_vars

PollFound(results) == \E k \in DOMAIN results : results[k] # None

FirstFound(results) ==
    results[CHOOSE k \in DOMAIN results :
                results[k] # None /\ \A j \in 1..(k - 1) : results[j] = None]

InterfaceAdded == last.op = "add_router_interface" /\ last.err = "none"

MetadataRoutes(router) ==
    {r \in BagToSet(mido.routes) : r.router = router /\ r.dst = METADATA_DEFAULT_IP}

InterfaceLinked ==
    /\ last.id \in DOMAIN db.ports
    /\ last.id \in DOMAIN mido.ports
    /\ mido.ports[last.id].peer_id \in DOMAIN mido.ports
    /\ mido.ports[mido.ports[last.id].peer_id].device_id = last.before
    /\ CopiesIn(Route(last.before, "Normal", <<"0.0.0.0", 0>>, <<"10.0.0.0", 24>>,
                      mido.ports[last.id].peer_id, None), mido.routes) = 1

(* C22: a successful add_router_interface has created the router port,    *)
(* its link to the interface port and the forwarding route of the subnet;  *)
(* the route to 169.254.169.254/32 with the subnet as source and the DHCP  *)
(* port's address as next-hop gateway is installed if and only if the poll *)
(* found that address, and a poll that found nothing does not fail the     *)
(* call.                                                                   *)
C22_MetadataRouteIffFound ==
    InterfaceAdded =>
        /\ InterfaceLinked
        /\ PollFound(last.arg) =>
               /\ MetadataRoutes(last.before) =
                     {Route(last.before, "Normal", <<"10.0.0.0", 24>>, METADATA_DEFAULT_IP,
                            mido.ports[last.id].peer_id, FirstFound(last.arg))}
               /\ \A r \in MetadataRoutes(last.before) : CopiesIn(r, mido.routes) = 1
        /\ ~PollFound(last.arg) => MetadataRoutes(last.before) = {}

C22_Witness ==
    /\ InterfaceAdded
    /\ ~PollFound(last.arg)
    /\ DhcpPorts(db, "n1") # {}
    /\ InterfaceLinked

(***************************** the bind world ******************************)
(* VIF ports on network n1 that are created, rebound to other groups,      *)
(* given other addresses and deleted.                                      *)
MaxBindPorts == 1

MaxBindIps == 1

BindPortRequests(md) ==
    {req \in PortRequests(md) :
        req.network_id = "n1" /\ req.device_owner = DEVICE_OWNER_VIF /\ ValidRequest(req)}

BindUpdateRequests ==
    {[has_admin_state_up |-> FALSE, admin_state_up |-> TRUE, has_fixed_ips |-> ips[1],
      fixed_ips |-> ips[2], sg_attr_set |-> sgs[1], security_groups |-> sgs[2]] :
        ips \in ({TRUE} \X NoDupSeqs(Addresses("n1"), MaxBindIps)) \cup {<<FALSE, <<>> >>},
        sgs \in ({TRUE} \X NoDupSeqs(SgIds, MaxSgIds)) \cup {<<FALSE, <<>> >>}}

(* The addresses of the request are free or the port's own.                *)
AddressesFree(d, id, req) ==
    \A i \in DOMAIN req.fixed_ips :
        \A q \in DOMAIN d.ports \ {id} :
            \A j \in DOMAIN d.ports[q].fixed_ips :
                d.ports[q].fixed_ips[j].ip_address # req.fixed_ips[i].ip_address

BindCreatePort ==
    /\ mido.seq < PortWorldMido.seq + MaxBindPorts
    /\ \E req \in BindPortRequests(mido) :
          \E r \in {create_port(Run(mido, db, -1), req, -1)} :
              /\ Ok(r)
              /\ mido' = r.mido
              /\ db' = r.db
              /\ last' = [CreateOutcome("create_port", req.id, r) EXCEPT
                              !.arg = SecurityGroupsOnPort(db, req)]
    /\ UNCHANGED <<lock, pc, calls>>

(* before: the groups and the addresses the port had.                      *)
BindUpdatePort ==
    /\ \E id \in DOMAIN db.ports, req \in BindUpdateRequests :
          /\ AddressesFree(db, id, req)
          /\ \E r \in {update_port(Run(mido, db, -1), id, req)} :
                 /\ Ok(r)
                 /\ mido' = r.mido
                 /\ db' = r.db
                 /\ last' = [Idle EXCEPT !.op = "update_port", !.id = id,
                                         !.before = <<db.ports[id].security_groups,
                                                      db.ports[id].fixed_ips>>]
    /\ UNCHANGED <<lock, pc, calls>>

BindDeletePort ==
    /\ \E id \in DOMAIN db.ports :
          \E r \in {delete_port(Run(mido, db, -1), id, TRUE)} :
              /\ Ok(r)
              /\ mido' = r.mido
              /\ db' = r.db
              /\ last' = [Idle EXCEPT !.op = "delete_port", !.id = id,
                                      !.before = <<db.ports[id].security_groups,
                                                   db.ports[id].fixed_ips>>]
    /\ UNCHANGED <<lock, pc, calls>>

BindNext == BindCreatePort \/ BindUpdatePort \/ BindDeletePort

SpecBind == PortsInit /\ [][BindNext]_vars

(*************************** jumps and bindings ****************************)
JumpsTo(chain, sg_chain) == Count(chain, LAMBDA r : IsJumpTo(r, sg_chain))

(* The jumps of a chain stand in one block that ends right before the      *)
(* terminal drop rule.                                                     *)
JumpsBeforeDrop(chain) ==
    /\ EndsWithDrop(chain)
    /\ \A i \in DOMAIN chain :
          IsJump(chain[i]) => \A j \in (i + 1)..(Len(chain) - 1) : IsJump(chain[j])

EgressJumps(sgs) == {JumpTo(_sg_chain_names(g).egress) : g \in sgs}

IngressJumps(sgs) == {JumpTo(_sg_chain_names(g).ingress) : g \in sgs}

(* C23: for every security group bound to a VIF port, the jump in the      *)
(* port's inbound chain targets the group's egress chain and the jump in   *)
(* the port's outbound chain targets the group's ingress chain; the jumps  *)
(* stand just before the terminal drop rule of their chain.                *)
C23_JumpTargets ==
    \A p \in VifPorts :
        /\ Range(Jumps(InChain(p))) = EgressJumps(Bound(db, p))
        /\ Range(Jumps(OutChain(p))) = IngressJumps(Bound(db, p))
        /\ JumpsBeforeDrop(InChain(p))
        /\ JumpsBeforeDrop(OutChain(p))

(* A port rebound by update_port to two groups.                            *)
C23_Witness ==
    /\ last.op = "update_port"
    /\ last.id \in VifPorts
    /\ Cardinality(Bound(db, last.id)) = 2
    /\ last.before[1] # db.ports[last.id].security_groups
    /\ InChain(last.id)[Len(InChain(last.id)) - 1] =
           JumpTo(_sg_chain_names(db.ports[last.id].security_groups[2]).egress)
    /\ OutChain(last.id)[Len(OutChain(last.id)) - 1] =
           JumpTo(_sg_chain_names(db.ports[last.id].security_groups[2]).ingress)

PortCreated == last.op = "create_port" /\ last.err = "none" /\ last.id \in VifPorts

IsChainEntry(e) == e[1] = "remote" /\ e[2] = "chain"

IsJumpEntry(e) == e[1] = "remote" /\ e[2] = "rule" /\ IsJump(e[4])

IsAddrEntry(e) == e[1] = "remote" /\ e[2] = "ip_addr_group_addr"

PortAddrs(d, p) == {d.ports[p].fixed_ips[i].ip_address : i \in DOMAIN d.ports[p].fixed_ips}

(* C24: after create_port of a VIF port bound to the groups S, each of its *)
(* two chains holds exactly one jump per group of S; the port's addresses  *)
(* were added to the IP address group of each group of S before the chains *)
(* were created, and every jump was added after that, once.                *)
C24_OneJumpPerGroup ==
    PortCreated =>
        /\ \A g \in Range(last.arg) :
              /\ JumpsTo(InChain(last.id), _sg_chain_names(g).egress) = 1
              /\ JumpsTo(OutChain(last.id), _sg_chain_names(g).ingress) = 1
              /\ PortAddrs(db, last.id) \subseteq mido.ipgs[g]
        /\ Count(InChain(last.id), IsJump) = Cardinality(Range(last.arg))
        /\ Count(OutChain(last.id), IsJump) = Cardinality(Range(last.arg))
        /\ Count(last.log, IsJumpEntry) = 2 * Cardinality(Range(last.arg))
        /\ Count(last.log, IsAddrEntry) =
              Cardinality(Range(last.arg)) * Cardinality(PortAddrs(db, last.id))
        /\ \A i, j \in DOMAIN last.log :
              /\ (IsAddrEntry(last.log[i]) /\ IsChainEntry(last.log[j])) => i < j
              /\ (IsChainEntry(last.log[i]) /\ IsJumpEntry(last.log[j])) => i < j

(* A port created with two addresses in two groups.                        *)
C24_Witness ==
    /\ PortCreated
    /\ Cardinality(Range(last.arg)) = 2
    /\ Cardinality(PortAddrs(db, last.id)) = 2
    /\ Count(last.log, IsAddrEntry) = 4
    /\ Count(last.log, IsJumpEntry) = 4

PortUpdated == last.op = "update_port" /\ last.err = "none" /\ last.id \in VifPorts

(* C25: after update_port each of the port's chains holds one jump for     *)
(* each group the port is now bound to and no other jump: the jumps to the *)
(* groups it was bound to before and is not bound to now are gone.         *)
C25_JumpsOfNewGroups ==
    PortUpdated =>
        /\ \A g \in Bound(db, last.id) :
              /\ JumpsTo(InChain(last.id), _sg_chain_names(g).egress) = 1
              /\ JumpsTo(OutChain(last.id), _sg_chain_names(g).ingress) = 1
        /\ \A g \in Range(last.before[1]) \ Bound(db, last.id) :
              /\ JumpsTo(InChain(last.id), _sg_chain_names(g).egress) = 0
              /\ JumpsTo(OutChain(last.id), _sg_chain_names(g).ingress) = 0
        /\ Count(InChain(last.id), IsJump) = Cardinality(Bound(db, last.id))
        /\ Count(OutChain(last.id), IsJump) = Cardinality(Bound(db, last.id))

(* A port moved from one group to another.                                 *)
C25_Witness ==
    /\ PortUpdated
    /\ Range(last.before[1]) \ Bound(db, last.id) # {}
    /\ Bound(db, last.id) \ Range(last.before[1]) # {}
    /\ Count(InChain(last.id), IsJump) = 1

BoundTo(g) == {p \in DOMAIN db.ports : <<p, g>> \in db.sg_bindings}

(* C26: the IP address group of every security group holds exactly the     *)
(* fixed addresses of the ports that are bound to the group.               *)
C26_GroupAddressesExact ==
    \A g \in DOMAIN mido.ipgs :
        mido.ipgs[g] = UNION {PortAddrs(db, p) : p \in BoundTo(g)}

(***************************** the rule world ******************************)
(* Chain rules built from security group rules and from keyword arguments. *)
MaxChainRules == 1

PortValues == {<<>>, <<0>>, <<8>>, <<22>>}

Remotes ==
    {[remote_ip_prefix |-> <<"0.0.0.0", 0>>, remote_group_id |-> None],
     [remote_ip_prefix |-> <<>>, remote_group_id |-> "sg2"],
     [remote_ip_prefix |-> <<>>, remote_group_id |-> None]}

SgRules(id) ==
    {[id |-> id, security_group_id |-> g, direction |-> d, ethertype |-> "IPv4",
      protocol |-> p, port_range_min |-> lo, port_range_max |-> hi,
      remote_ip_prefix |-> rem.remote_ip_prefix, remote_group_id |-> rem.remote_group_id] :
        g \in SgIds, d \in Directions, p \in {"tcp", "udp", "icmp", None},
        lo \in PortValues \ {<<0>>}, hi \in PortValues \ {<<8>>}, rem \in Remotes}

ChainRuleKw ==
    {[KW EXCEPT !.nw_proto = p, !.src_port_from = sf, !.src_port_to = st,
                !.dst_port_from = df, !.dst_port_to = dt] :
        p \in {<<1>>, <<6>>, <<17>>, <<>>},
        sf \in PortValues \ {<<0>>}, st \in PortValues \ {<<8>>},
        df \in PortValues \ {<<0>>}, dt \in PortValues \ {<<8>>}}

RulesIn(md) == {<<c, i>> : c \in DOMAIN md.chains, i \in 1..MaxChainRules}
                 \cap UNION {{<<c, i>> : i \in DOMAIN md.chains[c]} : c \in DOMAIN md.chains}

CreateAcceptChainRule ==
    /\ Cardinality(RulesIn(mido)) < MaxChainRules
    /\ \E sg_rule \in SgRules("sr" \o ToString(Cardinality(RulesIn(mido)) + 1)) :
          \E r \in {_create_accept_chain_rule(Run(mido, db, -1), sg_rule, None)} :
              /\ mido' = r.mido
              /\ db' = r.db
              /\ last' = [Idle EXCEPT !.op = "_create_accept_chain_rule", !.id = sg_rule.id,
                                      !.err = r.err, !.arg = <<sg_rule>>]
    /\ UNCHANGED <<lock, pc, calls>>

AddChainRule ==
    /\ Cardinality(RulesIn(mido)) < MaxChainRules
    /\ \E chain \in DOMAIN mido.chains, kw \in ChainRuleKw :
          \E r \in {_add_chain_rule(Run(mido, db, -1), chain, "accept", kw, 1)} :
              /\ mido' = r.mido
              /\ db' = r.db
              /\ last' = [Idle EXCEPT !.op = "_add_chain_rule", !.id = chain,
                                      !.err = r.err, !.arg = <<kw>>]
    /\ UNCHANGED <<lock, pc, calls>>

RulesNext == CreateAcceptChainRule \/ AddChainRule

SpecRules == PortsInit /\ [][RulesNext]_vars

AcceptRuleAdded == last.op = "_create_accept_chain_rule" /\ last.err = "none"

Prefix(p) == IF p # <<>> THEN net_addr(p) ELSE <<>>

TaggedIn(chain, id) ==
    {i \in DOMAIN mido.chains[chain] :
        mido.chains[chain][i].properties = <<OS_SG_RULE_KEY, id>>}

RemoteIsDestination(a, r) ==
    /\ a.ip_addr_group_dst = r.remote_group_id
    /\ a.nw_dst = Prefix(r.remote_ip_prefix)
    /\ a.ip_addr_group_src = None
    /\ a.nw_src = <<>>

RemoteIsSource(a, r) ==
    /\ a.ip_addr_group_src = r.remote_group_id
    /\ a.nw_src = Prefix(r.remote_ip_prefix)
    /\ a.ip_addr_group_dst = None
    /\ a.nw_dst = <<>>

(* The accept rule a made from the security group rule r.                  *)
AcceptRuleOf(a, r) ==
    /\ a.action = "accept"
    /\ a.properties = <<OS_SG_RULE_KEY, r.id>>
    /\ r.direction = "egress" => (RemoteIsDestination(a, r) /\ a.match_forward_flow)
    /\ r.direction = "ingress" => (RemoteIsSource(a, r) /\ ~a.match_forward_flow)
    /\ a.tp_src = [start |-> <<>>, end |-> <<>>]
    /\ a.tp_dst.end = r.port_range_max
    /\ r.protocol # "icmp" => a.tp_dst.start = r.port_range_min

(* C27: the accept rule made from a security group rule has the remote     *)
(* group and prefix as destination and forward-flow matching on when the   *)
(* direction is egress, and as source with forward-flow matching off when  *)
(* the direction is ingress; the port range of the rule is on the          *)
(* destination ports and the source ports are left open; the rule is in    *)
(* the chain of the rule's group and direction and in no other chain.      *)
C27_AcceptRuleSides ==
    AcceptRuleAdded =>
        /\ AcceptRuleOf(mido.chains[_sg_chain_names(last.arg[1].security_group_id)
                                       [last.arg[1].direction]][1], last.arg[1])
        /\ \A c \in DOMAIN mido.chains :
              TaggedIn(c, last.id) # {} =>
                  c = _sg_chain_names(last.arg[1].security_group_id)[last.arg[1].direction]

(* An ingress rule with a remote group and a port range.                   *)
C27_Witness ==
    /\ AcceptRuleAdded
    /\ last.arg[1].direction = "ingress"
    /\ last.arg[1].remote_group_id = "sg2"
    /\ last.arg[1].protocol = "tcp"
    /\ last.arg[1].port_range_min = <<8>>
    /\ last.arg[1].port_range_max = <<22>>
    /\ TaggedIn(_sg_chain_names(last.arg[1].security_group_id).ingress, last.id) = {1}

ChainRuleAdded == last.op = "_add_chain_rule" /\ last.err = "none"

Single(v) == [start |-> v, end |-> v]

(* C28: a chain rule with protocol 1 (ICMP) has as source range the lower  *)
(* bound of the given source range, twice, and as destination range the    *)
(* upper bound of the given destination range, twice; a rule with any      *)
(* other protocol has both ranges as given.                                *)
C28_IcmpRangesCollapsed ==
    ChainRuleAdded =>
        /\ mido.chains[last.id][1].nw_proto = last.arg[1].nw_proto
        /\ last.arg[1].nw_proto = <<1>> =>
              /\ mido.chains[last.id][1].tp_src = Single(last.arg[1].src_port_from)
              /\ mido.chains[last.id][1].tp_dst = Single(last.arg[1].dst_port_to)
        /\ last.arg[1].nw_proto # <<1>> =>
              /\ mido.chains[last.id][1].tp_src =
                     [start |-> last.arg[1].src_port_from, end |-> last.arg[1].src_port_to]
              /\ mido.chains[last.id][1].tp_dst =
                     [start |-> last.arg[1].dst_port_from, end |-> last.arg[1].dst_port_to]

(* An ICMP rule whose two ranges both have two different ends.             *)
C28_Witness ==
    /\ ChainRuleAdded
    /\ last.arg[1].nw_proto = <<1>>
    /\ last.arg[1].src_port_from = <<8>> /\ last.arg[1].src_port_to = <<22>>
    /\ last.arg[1].dst_port_from = <<8>> /\ last.arg[1].dst_port_to = <<0>>
    /\ mido.chains[last.id][1].tp_src = Single(<<8>>)
    /\ mido.chains[last.id][1].tp_dst = Single(<<0>>)

(************************* the association world ***************************)
(* Floating IPs created and updated, with the log of each call.            *)
AssocCreateFloatingip ==
    /\ mido.seq < FipWorld.mido.seq + MaxFipPorts
    /\ \E f \in FipIds \ DOMAIN db.floatingips, a \in FipAddresses,
          q \in FipWorldPorts \cup {None} :
          \E r \in {create_floatingip(Run(mido, db, -1),
                        [id |-> f, floating_network_id |-> "x1",
                         floating_ip_address |-> a, port_id |-> q])} :
              /\ mido' = r.mido
              /\ db' = r.db
              /\ last' = [FipOutcome("create_floatingip", f, r, None) EXCEPT !.log = r.log]
    /\ UNCHANGED <<lock, pc, calls>>

AssocUpdateFloatingip ==
    /\ \E f \in DOMAIN db.floatingips, q \in FipWorldPorts \cup {None} :
          \E r \in {update_floatingip(Run(mido, db, -1), f, q)} :
              /\ mido' = r.mido
              /\ db' = r.db
              /\ last' = [FipOutcome("update_floatingip", f, r, db.floatingips[f].port_id)
                             EXCEPT !.log = r.log]
    /\ UNCHANGED <<lock, pc, calls>>

AssocNext == AssocCreateFloatingip \/ AssocUpdateFloatingip

SpecAssoc == FipsInit /\ [][AssocNext]_vars

(* The call has associated the floating IP with a port it was not          *)
(* associated with before.                                                 *)
FipAssociated ==
    /\ last.op \in {"create_floatingip", "update_floatingip"}
    /\ last.err = "none"
    /\ last.id \in AssociatedFips
    /\ last.before # db.floatingips[last.id].port_id

IsRouteEntry(e) == e[1] = "remote" /\ e[2] = "route"

IsNatEntry(e) == e[1] = "remote" /\ e[2] = "rule" /\ e[4].action \in {"dnat", "snat"}

FipHostRoute(fip) ==
    <<"remote", "route",
      Route(_get_provider_router, "Normal", <<"0.0.0.0", 0>>, <<fip.floating_ip_address, 32>>,
            mido.ports[client_get_link_port(mido, _get_provider_router, fip.router_id)].peer_id,
            None)>>

FipDnat(fip) ==
    <<"remote", "rule", _nat_chain_names(fip.router_id).pre_routing,
      NatRule("dnat", fip.floating_ip_address, fip.fixed_ip_address,
              client_get_link_port(mido, _get_provider_router, fip.router_id),
              <<OS_FLOATING_IP_RULE_KEY, fip.id>>)>>

FipSnat(fip) ==
    <<"remote", "rule", _nat_chain_names(fip.router_id).post_routing,
      NatRule("snat", fip.fixed_ip_address, fip.floating_ip_address,
              client_get_link_port(mido, _get_provider_router, fip.router_id),
              <<OS_FLOATING_IP_RULE_KEY, fip.id>>)>>

(* C29: a call that associates a floating IP adds the provider router's    *)
(* host route for the floating address before any NAT rule, and then two   *)
(* NAT rules, no more: a dnat rule in the router's pre-routing chain from  *)
(* the floating to the fixed address and a snat rule in its post-routing   *)
(* chain from the fixed to the floating address, both tagged with the      *)
(* floating IP's id.                                                       *)
C29_RouteThenTwoNatRules ==
    FipAssociated =>
        /\ Count(last.log, IsRouteEntry) = 1
        /\ Count(last.log, LAMBDA e : e = FipHostRoute(db.floatingips[last.id])) = 1
        /\ Count(last.log, IsNatEntry) = 2
        /\ Count(last.log, LAMBDA e : e = FipDnat(db.floatingips[last.id])) = 1
        /\ Count(last.log, LAMBDA e : e = FipSnat(db.floatingips[last.id])) = 1
        /\ \A i, j \in DOMAIN last.log :
              (IsRouteEntry(last.log[i]) /\ IsNatEntry(last.log[j])) => i < j

(* A floating IP moved by update_floatingip from one port to another.      *)
C29_Witness ==
    /\ FipAssociated
    /\ last.op = "update_floatingip"
    /\ last.before # None
    /\ Count(last.log, IsNatEntry) = 2
    /\ mido.chains[_nat_chain_names(db.floatingips[last.id].router_id).pre_routing][1]
           = FipDnat(db.floatingips[last.id])[4]

(**************************** gateway removal ******************************)
(* update_router has left the router without a gateway: the gateway port,  *)
(* if there was one, went through delete_port.                             *)
GatewayRemoved ==
    /\ last.op = "update_router"
    /\ last.err = "none"
    /\ last.id \in DOMAIN db.routers
    /\ db.routers[last.id].gw_port_id = None

UplinkPorts(router) ==
    {p \in DOMAIN mido.ports :
        /\ mido.ports[p].device_id = router
        /\ mido.ports[p].type = "Router"
        /\ mido.ports[p].port_address = "169.254.255.2"}

ProviderUplinkPeers(router) ==
    {p \in DOMAIN mido.ports :
        /\ mido.ports[p].device_id = _get_provider_router
        /\ mido.ports[p].type = "Router"
        /\ mido.ports[p].port_address = "169.254.255.1"
        /\ mido.ports[p].peer_id \in UplinkPorts(router)}

DefaultRoutes(router) ==
    {r \in BagToSet(mido.routes) : r.router = router /\ r.dst = <<"0.0.0.0", 0>>}

(* C30: a router whose gateway was removed is as a router that never had   *)
(* a gateway: it has no uplink port with address 169.254.255.2, the peer   *)
(* of that port on the provider router is gone too, and it has no default  *)
(* route.                                                                  *)
C30_GatewayRemovedUnlinked ==
    GatewayRemoved =>
        /\ UplinkPorts(last.id) = {}
        /\ ProviderUplinkPeers(last.id) = {}
        /\ DefaultRoutes(last.id) = {}

(**************************** the gateway world ****************************)
(* Routers created, and updated with a failure injected at one step; no    *)
(* call is made after a call that failed.                                  *)
MaxGatewayIds == 8
MaxGatewayFailAt == 12

GatewayBudgets == {-1} \cup 0..MaxGatewayFailAt

(* before: the controller as it was when the call was made.                *)
GatewayOutcome(op, id, r, asked) ==
    [Idle EXCEPT !.op = op, !.id = id, !.err = r.err, !.before = mido, !.arg = asked,
                 !.hist = IF r.err = "none" THEN {} ELSE {"failed"}]

GatewayCreateRouter ==
    /\ last.hist = {}
    /\ mido.seq + 4 <= PortWorldMido.seq + MaxGatewayIds
    /\ \E req \in RouterRequests(mido) :
          \E r \in {create_router(Run(mido, db, -1), req, -1)} :
              /\ mido' = r.mido
              /\ db' = r.db
              /\ last' = GatewayOutcome("create_router", req.id, r, Asked(req))
    /\ UNCHANGED <<lock, pc, calls>>

GatewayUpdateRouter ==
    /\ last.hist = {}
    /\ mido.seq + 3 <= PortWorldMido.seq + MaxGatewayIds
    /\ \E id \in DOMAIN db.routers, data \in RouterUpdates, budget \in GatewayBudgets :
          \E r \in {update_router(Run(mido, db, budget), id, data)} :
              /\ mido' = r.mido
              /\ db' = r.db
              /\ last' = GatewayOutcome("update_router", id, r, Asked(data))
    /\ UNCHANGED <<lock, pc, calls>>

GatewayNext == GatewayCreateRouter \/ GatewayUpdateRouter

SpecGateway == PortsInit /\ [][GatewayNext]_vars

LinkedUplinks(md, router) ==
    {p \in DOMAIN md.ports :
        /\ md.ports[p].device_id = router
        /\ md.ports[p].type = "Router"
        /\ md.ports[p].port_address = "169.254.255.2"
        /\ md.ports[p].peer_id \in DOMAIN md.ports}

DefaultRoutesIn(md, router) ==
    {r \in BagToSet(md.routes) : r.router = router /\ r.dst = <<"0.0.0.0", 0>>}

SnatTagged(md, router) ==
    {<<c, i>> \in UNION {{<<c, i>> : i \in DOMAIN md.chains[c]} :
                            c \in {_nat_chain_names(router).pre_routing,
                                    _nat_chain_names(router).post_routing}
                                   \cap DOMAIN md.chains} :
        md.chains[c][i].properties = <<OS_TENANT_ROUTER_RULE_KEY, SNAT_RULE>>}

(* The call, whether it completed or failed on the way, has unlinked an    *)
(* uplink of the router, deleted a port or deleted a default route.        *)
GatewayTouched ==
    /\ last.op = "update_router"
    /\ \/ LinkedUplinks(last.before, last.id) \ LinkedUplinks(mido, last.id) # {}
       \/ DOMAIN last.before.ports \ DOMAIN mido.ports # {}
       \/ DefaultRoutesIn(last.before, last.id) \ DefaultRoutesIn(mido, last.id) # {}

(* C31: when the gateway port of a router is deleted, the rules tagged     *)
(* OS_TENANT_ROUTER_RULE = SNAT are gone from both NAT chains of the       *)
(* router before its uplink is unlinked and before a link port or the      *)
(* default route is deleted: wherever the call stops, a touched uplink     *)
(* means no tagged rule is left.                                           *)
C31_SnatRemovedFirst ==
    GatewayTouched => SnatTagged(mido, last.id) = {}

(* The call failed after it had unlinked the uplink of a router that had   *)
(* SNAT rules, with the gateway port still on the controller.              *)
C31_Witness ==
    /\ GatewayTouched
    /\ last.err # "none"
    /\ SnatTagged(last.before, last.id) # {}
    /\ LinkedUplinks(last.before, last.id) \ LinkedUplinks(mido, last.id) # {}
    /\ DOMAIN last.before.ports = DOMAIN mido.ports

DefaultRouteCount(md, router) ==
    BagCardinality([r \in DefaultRoutesIn(md, router) |-> CopiesIn(r, md.routes)])

SnatTaggedIn(md, chain) ==
    IF chain \in DOMAIN md.chains
    THEN Len(SelectSeq(md.chains[chain],
                       LAMBDA r : r.properties = <<OS_TENANT_ROUTER_RULE_KEY, SNAT_RULE>>))
    ELSE 0

(* C32: after any sequence of create_router and update_router calls a      *)
(* router has at most one linked uplink port 169.254.255.2, at most one    *)
(* default route and at most one rule tagged SNAT in each NAT chain.       *)
C32_OneUplinkOneSnatPair ==
    \A router \in DOMAIN db.routers :
        /\ Cardinality(LinkedUplinks(mido, router)) <= 1
        /\ DefaultRouteCount(mido, router) <= 1
        /\ SnatTaggedIn(mido, _nat_chain_names(router).pre_routing) <= 1
        /\ SnatTaggedIn(mido, _nat_chain_names(router).post_routing) <= 1

(**************************** deleting a subnet ****************************)
(* A subnet that still has ports with an address on it is not deleted.     *)
super_delete_subnet(m, id) ==
    Step(m, LAMBDA t :
        IF \E q \in DOMAIN t.db.ports :
              \E i \in DOMAIN t.db.ports[q].fixed_ips :
                  t.db.ports[q].fixed_ips[i].subnet_id = id
        THEN Raise(t, "SubnetInUse")
        ELSE [t EXCEPT !.db.subnets = [x \in (DOMAIN @) \ {id} |-> @[x]]])

client_delete_dhcp(m, bridge, cidr) ==
    Step(m, LAMBDA t : [t EXCEPT !.mido.dhcp_subnets = @ \ {<<bridge, cidr>>}])

(* filter_routes(routes, cidr=...): the routes of the provider router to   *)
(* the network cidr.                                                       *)
DeleteSubnetRoutes(m, cidr) ==
    LET ToSubnet(r) == r.router = _get_provider_router /\ r.dst = net_addr(cidr)
    IN  IF ~Ok(m) \/ \A r \in DOMAIN m.mido.routes : ~ToSubnet(r) THEN m
        ELSE client_delete_routes(m, ToSubnet)

(* filter_routes(routes, port_id=...): the routes through the port.        *)
DeletePortRoutes(m, p) ==
    LET Through(r) == r.router = _get_provider_router /\ r.next_hop_port = p
    IN  IF ~Ok(m) \/ \A r \in DOMAIN m.mido.routes : ~Through(r) THEN m
        ELSE client_delete_routes(m, Through)

(* provider_router.get_peer_ports() on the bridge: the ports of the bridge *)
(* that are linked to a port of the provider router.                       *)
BridgePortsToDelete(md, bridge) ==
    {q \in DOMAIN md.ports :
        /\ md.ports[q].device_id = bridge
        /\ md.ports[q].peer_id \in DOMAIN md.ports
        /\ md.ports[md.ports[q].peer_id].device_id = _get_provider_router}

(* bridge.get_peer_ports() on the provider router.                         *)
ProviderPeerPorts(md, bridge) ==
    {p \in DOMAIN md.ports :
        /\ md.ports[p].device_id = _get_provider_router
        /\ md.ports[p].peer_id \in DOMAIN md.ports
        /\ md.ports[md.ports[p].peer_id].device_id = bridge}

RECURSIVE UnlinkProviderPorts(_, _)
UnlinkProviderPorts(m, ps) ==
    IF ps = {} \/ ~Ok(m) THEN m
    ELSE UnlinkProviderPorts(
             client_delete_port(client_unlink(DeletePortRoutes(m, CHOOSE x \in ps : TRUE),
                                              CHOOSE x \in ps : TRUE),
                                CHOOSE x \in ps : TRUE, FALSE),
             ps \ {CHOOSE x \in ps : TRUE})

RECURSIVE DeleteBridgePorts(_, _)
DeleteBridgePorts(m, ps) ==
    IF ps = {} \/ ~Ok(m) THEN m
    ELSE DeleteBridgePorts(client_delete_port(m, CHOOSE x \in ps : TRUE, FALSE),
                           ps \ {CHOOSE x \in ps : TRUE})

(* The link ports deleted before the routes of the subnet.                 *)
_unlink_from_provider_router_ports_first(m, bridge, subnet) ==
    IF ~Ok(m) THEN m
    ELSE DeleteSubnetRoutes(
             DeleteBridgePorts(
                 UnlinkProviderPorts(m, ProviderPeerPorts(m.mido, bridge)),
                 BridgePortsToDelete(m.mido, bridge)),
             subnet.cidr)

_unlink_from_provider_router(m, bridge, subnet) ==
    IF ~Ok(m) THEN m
    ELSE DeleteBridgePorts(
             UnlinkProviderPorts(DeleteSubnetRoutes(m, subnet.cidr),
                                 ProviderPeerPorts(m.mido, bridge)),
             BridgePortsToDelete(m.mido, bridge))

UnlinkExternalSubnet(m, external, subnet) ==
    IF Ok(m) /\ external
    THEN _unlink_from_provider_router(m, subnet.network_id, subnet)
    ELSE m

DeleteSubnetFound(m, id, subnet) ==
    Rollback(UnlinkExternalSubnet(
                 client_delete_dhcp(super_delete_subnet(Begin(m), id),
                                    subnet.network_id, subnet.cidr),
                 m.db.networks[subnet.network_id].external, subnet),
             m.db)

delete_subnet(m, id) ==
    IF id \notin DOMAIN m.db.subnets THEN Raise(m, "SubnetNotFound")
    ELSE DeleteSubnetFound(m, id, m.db.subnets[id])

(***************************** the subnet world ****************************)
(* Subnets created on both networks and deleted with a failure injected at *)
(* one step; ports created on the external network; no call is made after  *)
(* a call that failed.                                                     *)
MaxSubnetIds == 6
MaxSubnetFailAt == 9

SubnetBudgets == {-1} \cup 0..MaxSubnetFailAt

(* before: the controller as it was when the call was made; arg: the       *)
(* bridge and the CIDR of the subnet.                                      *)
SubnetOutcome(op, id, r, subnet) ==
    [Idle EXCEPT !.op = op, !.id = id, !.err = r.err, !.before = mido,
                 !.arg = <<subnet.network_id, subnet.cidr>>,
                 !.hist = IF r.err = "none" THEN {} ELSE {"failed"}]

SubnetsCreateSubnet ==
    /\ last.hist = {}
    /\ mido.seq + 2 <= PortWorldMido.seq + MaxSubnetIds
    /\ \E s \in SubnetRequests(db) :
          /\ s.id \notin DOMAIN db.subnets
          /\ \E r \in {create_subnet(Run(mido, db, -1), s)} :
                 /\ mido' = r.mido
                 /\ db' = r.db
                 /\ last' = SubnetOutcome("create_subnet", s.id, r, s)
    /\ UNCHANGED <<lock, pc, calls>>

SubnetsDeleteSubnet ==
    /\ last.hist = {}
    /\ \E id \in DOMAIN db.subnets, budget \in SubnetBudgets :
          \E r \in {delete_subnet(Run(mido, db, budget), id)} :
              /\ mido' = r.mido
              /\ db' = r.db
              /\ last' = SubnetOutcome("delete_subnet", id, r, db.subnets[id])
    /\ UNCHANGED <<lock, pc, calls>>

SubnetsCreatePort ==
    /\ last.hist = {}
    /\ mido.seq + 1 <= PortWorldMido.seq + MaxSubnetIds
    /\ "sx" \in DOMAIN db.subnets
    /\ DOMAIN db.ports = {}
    /\ \E r \in {create_port(Run(mido, db, -1),
                              [WorldPortRequest(mido, DEVICE_OWNER_VIF, "vm", "200.0.0.3")
                                  EXCEPT !.network_id = "x1",
                                         !.fixed_ips[1].subnet_id = "sx"], -1)} :
          /\ mido' = r.mido
          /\ db' = r.db
          /\ last' = [Idle EXCEPT !.op = "create_port", !.err = r.err]
    /\ UNCHANGED <<lock, pc, calls>>

SubnetsNext == SubnetsCreateSubnet \/ SubnetsDeleteSubnet \/ SubnetsCreatePort

SpecSubnets == PortsInit /\ [][SubnetsNext]_vars

RoutesTo(md, cidr) ==
    {r \in BagToSet(md.routes) : r.router = _get_provider_router /\ r.dst = cidr}

SubnetDeleted == last.op = "delete_subnet" /\ db.networks[last.arg[1]].external

(* C33: delete_subnet on an external network deletes every route of the    *)
(* provider router to the subnet's CIDR before it deletes a link port, and *)
(* the provider-facing link ports before the bridge-facing ones; when it   *)
(* has completed the provider router has no port linked to the bridge and  *)
(* no route to that CIDR.                                                  *)
C33_UnlinkUndoesLink ==
    SubnetDeleted =>
        /\ (DOMAIN last.before.ports \ DOMAIN mido.ports # {}) =>
               RoutesTo(mido, last.arg[2]) = {}
        /\ (BridgePortsToDelete(last.before, last.arg[1]) \ DOMAIN mido.ports # {}) =>
               ProviderPeerPorts(last.before, last.arg[1]) \cap DOMAIN mido.ports = {}
        /\ last.err = "none" =>
               /\ ProviderPeerPorts(mido, last.arg[1]) = {}
               /\ RoutesTo(mido, last.arg[2]) = {}
               /\ last.id \notin DOMAIN db.subnets

(* delete_subnet has completed on an external subnet that create_subnet    *)
(* had linked to the provider router with a BlackHole route.               *)
C33_Witness ==
    /\ SubnetDeleted
    /\ last.err = "none"
    /\ last.id = "sx1"
    /\ RoutesTo(last.before, last.arg[2]) # {}
    /\ ProviderPeerPorts(last.before, last.arg[1]) # {}
    /\ ProviderPeerPorts(mido, last.arg[1]) = {}

(* add_router_chains raised in create_router: the first except clause was  *)
(* entered with the router, and at most one of its chains, created.        *)
ChainsFailed ==
    /\ last.op = "create_router"
    /\ last.orig # "none"
    /\ Len(last.created) < 3
    /\ <<"router", last.id>> \in Range(last.created)

(* C34: when creating the router's chains fails, create_router does not    *)
(* raise, and the router is in the relational store with status ERROR.     *)
C34_ChainFailureRecorded ==
    ChainsFailed =>
        /\ last.err = "none"
        /\ last.id \in DOMAIN db.routers
        /\ db.routers[last.id].status = "ERROR"

(* create_security_group_rule_bulk raised from the except clause of one of *)
(* its rules.                                                              *)
BulkFailed ==
    /\ last.op = "create_security_group_rule_bulk"
    /\ last.err # "none"
    /\ last.orig # "none"

BatchTagged(md, ids) ==
    {<<c, i>> \in UNION {{<<c, i>> : i \in DOMAIN md.chains[c]} : c \in DOMAIN md.chains} :
        \E j \in DOMAIN ids : md.chains[c][i].properties = <<OS_SG_RULE_KEY, ids[j]>>}

(* C35: create_security_group_rule_bulk is all-or-nothing: when the        *)
(* translation of a rule of the batch fails, the call raises, no logical   *)
(* rule of the batch is in the store, and no chain holds a rule tagged     *)
(* with the id of a rule of the batch.                                     *)
C35_BulkAllOrNothing ==
    BulkFailed =>
        /\ \A j \in DOMAIN last.arg : last.arg[j] \notin DOMAIN db.sg_rules
        /\ BatchTagged(mido, last.arg) = {}

(******************* the guard on calls that raise or nest *****************)
(* The handlers a request thread may call: the three guarded port          *)
(* operations and create_router, which has no guard of its own and creates *)
(* the gateway port through create_port.                                   *)
GuardOps == PortOps \cup {"create_router"}

(* The lock a handler's decorator names, None for a handler without one.   *)
GuardedBy(op) == IF op \in PortOps THEN synchronized(op) ELSE None

(* create_port as if its except clause called delete_port.                 *)
GuardedCallsCompensating(op) ==
    CASE op = "create_port" -> <<"delete_port">>
      [] op = "update_port" -> <<>>
      [] op = "delete_port" -> <<>>
      [] op = "create_router" -> <<"create_port">>

(* The guarded port operations the body of a handler calls.                *)
GuardedCalls(op) ==
    CASE op = "create_port" -> <<>>
      [] op = "update_port" -> <<>>
      [] op = "delete_port" -> <<>>
      [] op = "create_router" -> <<"create_port">>

(* What a body calls, in order: the controller, then the guarded           *)
(* operations.                                                             *)
BodyCalls(op) ==
    (IF op \in PortOps THEN ControllerCalls(op) ELSE <<"create_router", "add_router_chains">>)
        \o [i \in DOMAIN GuardedCalls(op) |-> "self." \o GuardedCalls(op)[i]]

(* The guarded operation that a call of the body is, None for a call to    *)
(* the controller.                                                         *)
SelfCall(call) ==
    IF \E op \in PortOps : call = "self." \o op
    THEN CHOOSE op \in PortOps : call = "self." \o op
    ELSE None

(* outer: the bodies of this thread that wait for the call they made.      *)
IdleGuard == [at |-> "idle", op |-> None, id |-> None, k |-> 0, outer |-> <<>>]

GuardInit ==
    /\ mido = PortWorldMido
    /\ db = PortWorldDb
    /\ last = Idle
    /\ lock = [n \in LockNames |-> 0]
    /\ pc = [p \in Procs |-> IdleGuard]
    /\ calls = <<>>

GuardInvoke(p) ==
    /\ pc[p].at = "idle"
    /\ \E op \in GuardOps, id \in PortIds :
          pc' = [pc EXCEPT ![p] = [IdleGuard EXCEPT !.at = "waiting", !.op = op, !.id = id]]
    /\ UNCHANGED <<mido, db, last, lock, calls>>

(* The decorator acquires the lock, which is not handed to a thread twice, *)
(* and the body starts; a handler without decorator starts at once.        *)
GuardEnter(p) ==
    /\ pc[p].at = "waiting"
    /\ GuardedBy(pc[p].op) # None => lock[GuardedBy(pc[p].op)] = 0
    /\ lock' = IF GuardedBy(pc[p].op) # None
               THEN [lock EXCEPT ![GuardedBy(pc[p].op)] = p] ELSE lock
    /\ pc' = [pc EXCEPT ![p].at = "body"]
    /\ UNCHANGED <<mido, db, last, calls>>

(* The body makes its next call: a call to the controller, or a call of a  *)
(* guarded operation, whose decorator the thread then stands before.       *)
GuardCall(p) ==
    /\ pc[p].at = "body"
    /\ pc[p].k < Len(BodyCalls(pc[p].op))
    /\ pc' = [pc EXCEPT ![p] =
                 IF SelfCall(BodyCalls(pc[p].op)[pc[p].k + 1]) # None
                 THEN [at |-> "waiting", op |-> SelfCall(BodyCalls(pc[p].op)[pc[p].k + 1]),
                       id |-> pc[p].id, k |-> 0,
                       outer |-> <<[op |-> pc[p].op, k |-> pc[p].k + 1]>> \o pc[p].outer]
                 ELSE [pc[p] EXCEPT !.k = @ + 1]]
    /\ UNCHANGED <<mido, db, last, lock, calls>>

Released(p, op) ==
    IF GuardedBy(op) # None /\ lock[GuardedBy(op)] = p
    THEN [lock EXCEPT ![GuardedBy(op)] = 0] ELSE lock

(* The body returns: the decorator releases the lock and the calling body, *)
(* if there is one, goes on.                                               *)
GuardReturn(p) ==
    /\ pc[p].at = "body"
    /\ pc[p].k = Len(BodyCalls(pc[p].op))
    /\ lock' = Released(p, pc[p].op)
    /\ pc' = [pc EXCEPT ![p] =
                 IF pc[p].outer = <<>> THEN IdleGuard
                 ELSE [at |-> "body", op |-> Head(pc[p].outer).op, id |-> pc[p].id,
                       k |-> Head(pc[p].outer).k, outer |-> Tail(pc[p].outer)]]
    /\ last' = [Idle EXCEPT !.op = pc[p].op, !.id = pc[p].id, !.arg = <<p>>]
    /\ UNCHANGED <<mido, db, calls>>

(* A call of the body raises and the exception leaves the handler and the  *)
(* bodies that called it: each decorator releases what it holds.           *)
GuardRaise(p) ==
    /\ pc[p].at = "body"
    /\ pc[p].k < Len(BodyCalls(pc[p].op))
    /\ lock' = [n \in LockNames |-> IF lock[n] = p THEN 0 ELSE lock[n]]
    /\ pc' = [pc EXCEPT ![p] = IdleGuard]
    /\ last' = [Idle EXCEPT !.op = pc[p].op, !.id = pc[p].id, !.arg = <<p>>,
                            !.err = "MidonetApiException"]
    /\ UNCHANGED <<mido, db, calls>>

GuardNext ==
    \E p \in Procs :
        GuardInvoke(p) \/ GuardEnter(p) \/ GuardCall(p) \/ GuardReturn(p) \/ GuardRaise(p)

WaitsFor(p, n) == pc[p].at = "waiting" /\ GuardedBy(pc[p].op) = n

(* A body that runs makes its calls, each of which returns or raises; a    *)
(* free lock is given to one of the threads that wait for it; a handler    *)
(* without decorator starts.                                               *)
GuardFair ==
    /\ \A p \in Procs : WF_vars(GuardCall(p) \/ GuardReturn(p) \/ GuardRaise(p))
    /\ \A n \in LockNames : WF_vars(\E p \in Procs : WaitsFor(p, n) /\ GuardEnter(p))
    /\ \A p \in Procs : WF_vars(WaitsFor(p, None) /\ GuardEnter(p))

SpecGuard == GuardInit /\ [][GuardNext]_vars /\ GuardFair

(* A lock is held only by a thread that is in the body of a handler        *)
(* guarded by it: not by a thread that has returned or raised, and not by  *)
(* one that stands before a decorator again.                               *)
HeldInBody ==
    \A n \in LockNames :
        lock[n] # 0 => pc[lock[n]].at = "body" /\ GuardedBy(pc[lock[n]].op) = n

(* C36: the port critical section is released on return and on every      *)
(* exception, and no call of create_port, update_port or delete_port       *)
(* acquires it a second time: the lock is only ever held by a running      *)
(* body, the thread that holds it while another waits gives it up, and a   *)
(* free lock that is waited for is taken.                                  *)
C36_GuardReleased ==
    /\ []HeldInBody
    /\ \A n \in LockNames : \A p \in Procs : \A q \in Procs :
          (WaitsFor(p, n) /\ lock[n] = q) ~> (lock[n] # q)
    /\ \A n \in LockNames :
          ((\E p \in Procs : WaitsFor(p, n)) /\ lock[n] = 0) ~> (lock[n] # 0)

(* A port operation has raised in its body, and a port operation that      *)
(* waited meanwhile is now in its body holding the lock.                   *)
C36_Witness ==
    /\ last.op \in PortOps
    /\ last.err = "MidonetApiException"
    /\ \E q \in Procs \ {last.arg[1]} :
          /\ pc[q].at = "body"
          /\ pc[q].op \in PortOps
          /\ lock[GuardedBy(pc[q].op)] = q
          /\ pc[last.arg[1]].at = "idle"

=============================================================================
